---- MODULE Spec2Model ----
(***************************************************************************)
(* Faizos food-delivery backend: the route handlers of the admin,          *)
(* customer, auth and restaurant routers over the User, DeliveryAddress    *)
(* and Order collections.                                                  *)
(*                                                                         *)
(* A collection is a function from the ids of its documents to the         *)
(* documents.  Every handler is one action (the request is its input, the  *)
(* response is left in res, the request in req).  The handlers that make   *)
(* two database writes separated by an await are modelled a second time,   *)
(* one step per await, for two requests in flight (SpecRace).              *)
(***************************************************************************)
EXTENDS Integers, Sequences, FiniteSets, TLC

VARIABLES
    users,      \* User collection: id -> [role, status, emailId, password, firstName,
                \*                         lastName, gender, phoneNumber, lastActiveAt]
    tokens,     \* ids of the users a token cookie has been issued for
    addresses,  \* DeliveryAddress collection: id -> [userId, isDefault]
    nextAddr,   \* id the next inserted DeliveryAddress gets
    orders,     \* Order collection: id -> [userId, restaurantId, status, orderStatus, date]
    nextOrder,  \* id the next inserted Order gets
    req,        \* the request handled last
    res,        \* its response
    inflight,   \* the address requests in flight, each at one of its awaits
    tick,       \* number of database writes the requests in flight have made
    now,        \* Date.now(), in minutes
    restaurants,\* Restaurant collection: id -> [owner, restaurantName]
    menus,      \* Menu collection: id -> [restaurant, itemName, price, availability]
    nextMenu    \* id the next inserted Menu item gets

vars ==
    <<users, tokens, addresses, nextAddr, orders, nextOrder, req, res, inflight, tick, now,
      restaurants, menus, nextMenu>>

\* ------------------------------------------------------------------ bounds

\* DeliveryAddress documents ever inserted.
MaxAddr == 2

\* Order documents ever inserted.
MaxOrders == 2

\* User documents ever inserted.
MaxUsers == 3

\* Restaurant documents ever inserted.
MaxRestaurants == 2

\* Menu documents ever inserted.
MaxMenu == 2

\* Minutes the clock runs.
MaxNow == 3

\* ------------------------------------------------------------- identities

\* A request that carries no token cookie.
NoToken == 0

\* An id-valued field that the request body does not have.
NoField == 0

\* A path id that is no well-formed ObjectId (findById throws a CastError).
Malformed == 0

\* User ids a request can name; the seeded users have the first ones.
UserIds == 1..MaxUsers

\* Users a request body can name: the seeded ones.
BodyUserIds == 1..2

AddrIds == 1..MaxAddr

OrderIds == 1..MaxOrders

\* The mandatory fields of an address.
requiredFields ==
    {"firstName", "lastName", "addressLine1", "city", "state", "country", "postalCode"}

\* ------------------------------------------------------------ middlewares

\* userAuth: the user the token cookie resolves to, or NoToken when the
\* cookie is absent, invalid, or names a user that no longer exists.
userAuth(tok) ==
    IF tok # NoToken /\ tok \in tokens /\ tok \in DOMAIN users THEN tok ELSE NoToken

\* A middleware chain that called next() down to the handler.
Proceed == 0

isAdminAnyRole(user) == IF user # NoToken THEN Proceed ELSE 400

\* isAdmin: next() for a resolved user with role admin; it throws, and answers
\* 400, for another role and when no user is attached to the request.
isAdmin(user) ==
    IF user # NoToken /\ users[user].role = "admin" THEN Proceed ELSE 400

adminRoutesAllGated ==
    [r \in {"login", "logout", "registerUsers", "deactivateUser", "patchUser",
            "createAddress", "updateAddress", "listOrders", "getOrder",
            "cancelOrder", "rescheduleOrder", "popularRestaurants",
            "averageDeliveryTime", "orderTrends", "activeUsers",
            "deliveryActivity", "orderStatuses"} |->
        IF r = "login" THEN << >> ELSE <<"userAuth", "isAdmin">>]

\* The middlewares each route of adminRouter is registered with.
adminRoutes ==
    [login                 |-> << >>,
     logout                |-> <<"userAuth", "isAdmin">>,
     registerUsers         |-> <<"userAuth", "isAdmin">>,
     deactivateUser        |-> <<"userAuth", "isAdmin">>,
     patchUser             |-> <<"userAuth", "isAdmin">>,
     createAddress         |-> <<"userAuth", "isAdmin">>,
     updateAddress         |-> <<"userAuth", "isAdmin">>,
     listOrders            |-> <<"userAuth", "isAdmin">>,
     getOrder              |-> <<"userAuth", "isAdmin">>,
     cancelOrder           |-> << >>,
     rescheduleOrder       |-> <<"userAuth", "isAdmin">>,
     popularRestaurants    |-> <<"userAuth", "isAdmin">>,
     averageDeliveryTime   |-> <<"userAuth", "isAdmin">>,
     orderTrends           |-> <<"userAuth", "isAdmin">>,
     activeUsers           |-> <<"userAuth", "isAdmin">>,
     deliveryActivity      |-> <<"userAuth", "isAdmin">>,
     orderStatuses         |-> <<"userAuth", "isAdmin">>]

Uses(chain, mw) == \E i \in DOMAIN chain : chain[i] = mw

\* Express runs a route's middlewares in order: Proceed when all called next(),
\* else the status of the one that ended the request.
RunMiddlewares(chain, tok) ==
    IF Uses(chain, "userAuth") /\ userAuth(tok) = NoToken THEN 401
    ELSE IF Uses(chain, "isAdmin")
    THEN isAdmin(IF Uses(chain, "userAuth") THEN userAuth(tok) ELSE NoToken)
    ELSE Proceed

\* The response of a middleware that ended the request.
Rejected(status) ==
    [status |-> status,
     body   |-> IF status = 401 THEN "Unauthenticated" ELSE "ERROR : Invalid Authorization",
     cookie |-> NoToken,
     data   |-> << >>]

\* ------------------------------------------------------- delivery addresses
\* A stored address is [userId, isDefault]: the name, street and city fields
\* are not tracked, no handler reads them back.

\* JavaScript truthiness of body.isDefault ("absent" | "true" | "false").
Truthy(b) == b = "true"

ClearDefaultsNothing(A, uid) == A

\* DeliveryAddress.updateMany({userId, isDefault: true}, {$set: {isDefault: false}})
ClearDefaults(A, uid) ==
    [a \in DOMAIN A |->
        IF A[a].userId = uid /\ A[a].isDefault
        THEN [A[a] EXCEPT !.isDefault = FALSE]
        ELSE A[a]]

\* new DeliveryAddress({ userId: user._id, ...req.body }): the body's fields
\* are spread after userId, so a userId in the body replaces the path's.
NewAddress(uid, body) ==
    [userId    |-> IF body.userId # NoField THEN body.userId ELSE uid,
     isDefault |-> body.isDefault = "true"]

\* document.save() of a new document: an insert.
Insert(A, id, doc) ==
    [a \in DOMAIN A \cup {id} |-> IF a = id THEN doc ELSE A[a]]

AssignKeepsDocument(doc, body) == doc

\* Object.assign(address, updatedData): the in-memory document after the
\* body's fields are assigned to it.
Assign(doc, body) ==
    [userId    |-> IF body.userId # NoField THEN body.userId ELSE doc.userId,
     isDefault |-> IF body.isDefault = "absent" THEN doc.isDefault
                   ELSE body.isDefault = "true"]

\* document.save() of a loaded document: an update that sets the paths whose
\* value the handler changed since the document was loaded, and no other.
SaveModified(A, id, loaded, doc) ==
    [A EXCEPT ![id] =
        [userId    |-> IF doc.userId # loaded.userId THEN doc.userId ELSE @.userId,
         isDefault |-> IF doc.isDefault # loaded.isDefault
                       THEN doc.isDefault ELSE @.isDefault]]

\* Model.findOneAndDelete / deleteOne by id.
Remove(A, id) == [a \in DOMAIN A \ {id} |-> A[a]]

HasRequiredAlways(body) == TRUE

\* The create handlers' check of the seven mandatory fields.
HasRequired(body) == body.missing = "none"

\* Bodies of the address requests with all mandatory fields present.
AddrBodies ==
    [missing   : {"none"},
     isDefault : {"absent", "true", "false"},
     userId    : {NoField} \cup BodyUserIds]

\* Bodies that lack one mandatory field.
IncompleteBodies ==
    [missing   : requiredFields,
     isDefault : {"true"},
     userId    : {NoField}]

\* The cookies a request can carry: none, or a token the server has issued.
Cookies == {NoToken} \cup tokens

Request(op, tok, uid, id, def) ==
    [op |-> op, tok |-> tok, uid |-> uid, id |-> id, def |-> def]

\* A request whose body or arguments are kept.
RestRequest(op, tok, uid, id, arg) ==
    [op |-> op, tok |-> tok, uid |-> uid, id |-> id, def |-> FALSE, arg |-> arg]

Response(status, body) ==
    [status |-> status, body |-> body, cookie |-> NoToken, data |-> << >>]

\* A response that carries documents (their ids, in the order of the query).
ResponseData(status, body, data) ==
    [status |-> status, body |-> body, cookie |-> NoToken, data |-> data]

\* What a handler of the address routes, run to completion, leaves alone.
AddrFrame ==
    UNCHANGED <<users, tokens, orders, nextOrder, inflight, tick, now, restaurants,
                menus, nextMenu>>

\* customerRouter.post('/users/:userId/delivery-addresses', userAuth, ...)
CustomerCreateAddress(tok, uid, body) ==
    /\ req' = Request("customerCreateAddress", tok, uid, nextAddr, Truthy(body.isDefault))
    /\ AddrFrame
    /\ IF userAuth(tok) = NoToken
       THEN /\ res' = Response(401, "Unauthenticated")
            /\ UNCHANGED <<addresses, nextAddr>>
       ELSE IF uid \notin DOMAIN users
       THEN /\ res' = Response(404, "User not found")
            /\ UNCHANGED <<addresses, nextAddr>>
       ELSE IF ~HasRequired(body)
       THEN /\ res' = Response(400, "Missing required field")
            /\ UNCHANGED <<addresses, nextAddr>>
       ELSE /\ nextAddr <= MaxAddr
            /\ LET cleared == IF Truthy(body.isDefault)
                              THEN ClearDefaults(addresses, uid)
                              ELSE addresses
               IN  addresses' = Insert(cleared, nextAddr, NewAddress(uid, body))
            /\ nextAddr' = nextAddr + 1
            /\ res' = Response(201, "Delivery address added successfully")

\* customerRouter.put('/users/:userId/delivery-addresses/:addressId', userAuth, ...)
CustomerUpdateAddress(tok, uid, aid, body) ==
    /\ req' = Request("customerUpdateAddress", tok, uid, aid, Truthy(body.isDefault))
    /\ AddrFrame
    /\ UNCHANGED nextAddr
    /\ IF userAuth(tok) = NoToken
       THEN /\ res' = Response(401, "Unauthenticated")
            /\ UNCHANGED addresses
       ELSE IF uid \notin DOMAIN users
       THEN /\ res' = Response(404, "User not found")
            /\ UNCHANGED addresses
       ELSE IF aid = Malformed
       THEN /\ res' = Response(500, "Internal server error")
            /\ UNCHANGED addresses
       ELSE IF aid \notin DOMAIN addresses \/ addresses[aid].userId # uid
       THEN /\ res' = Response(404, "Address not found")
            /\ UNCHANGED addresses
       ELSE /\ LET address == addresses[aid]
                   cleared == IF Truthy(body.isDefault)
                              THEN ClearDefaults(addresses, uid)
                              ELSE addresses
               IN  addresses' = SaveModified(cleared, aid, address, Assign(address, body))
            /\ res' = Response(200, "Address updated successfully")

\* The delete by id alone.
CustomerDeleteAddressById(tok, uid, aid) ==
    /\ req' = Request("customerDeleteAddress", tok, uid, aid, FALSE)
    /\ AddrFrame
    /\ UNCHANGED nextAddr
    /\ IF userAuth(tok) = NoToken
       THEN /\ res' = Response(401, "Unauthenticated")
            /\ UNCHANGED addresses
       ELSE IF aid = Malformed
       THEN /\ res' = Response(500, "Failed to delete delivery address")
            /\ UNCHANGED addresses
       ELSE IF aid \notin DOMAIN addresses
       THEN /\ res' = Response(404, "Address not found")
            /\ UNCHANGED addresses
       ELSE /\ addresses' = Remove(addresses, aid)
            /\ res' = Response(200, "Delivery address deleted successfully")

\* customerRouter.delete('/users/:userId/delivery-addresses/:addressId', userAuth, ...)
CustomerDeleteAddress(tok, uid, aid) ==
    /\ req' = Request("customerDeleteAddress", tok, uid, aid, FALSE)
    /\ AddrFrame
    /\ UNCHANGED nextAddr
    /\ IF userAuth(tok) = NoToken
       THEN /\ res' = Response(401, "Unauthenticated")
            /\ UNCHANGED addresses
       ELSE IF aid = Malformed
       THEN /\ res' = Response(500, "Failed to delete delivery address")
            /\ UNCHANGED addresses
       ELSE IF aid \notin DOMAIN addresses \/ addresses[aid].userId # uid
       THEN /\ res' = Response(404, "Address not found")
            /\ UNCHANGED addresses
       ELSE /\ addresses' = Remove(addresses, aid)
            /\ res' = Response(200, "Delivery address deleted successfully")

\* adminRouter.post('/users/:userId/delivery-addresses', userAuth, isAdmin, ...)
AdminCreateAddress(tok, uid, body) ==
    /\ req' = Request("adminCreateAddress", tok, uid, nextAddr, Truthy(body.isDefault))
    /\ AddrFrame
    /\ LET gate == RunMiddlewares(adminRoutes.createAddress, tok) IN
       IF gate # Proceed
       THEN /\ res' = Rejected(gate)
            /\ UNCHANGED <<addresses, nextAddr>>
       ELSE IF uid \notin DOMAIN users
       THEN /\ res' = Response(404, "User not found")
            /\ UNCHANGED <<addresses, nextAddr>>
       ELSE IF ~HasRequired(body)
       THEN /\ res' = Response(400, "Missing required fields in request body")
            /\ UNCHANGED <<addresses, nextAddr>>
       ELSE /\ nextAddr <= MaxAddr
            /\ addresses' = Insert(addresses, nextAddr, NewAddress(uid, body))
            /\ nextAddr' = nextAddr + 1
            /\ res' = Response(201, "Delivery address created successfully")

\* adminRouter.patch('/users/:userId/delivery-addresses/:addressId', userAuth, isAdmin, ...)
\* It assigns the name, street and city fields only, and saves.
AdminUpdateAddress(tok, uid, aid) ==
    /\ req' = Request("adminUpdateAddress", tok, uid, aid, FALSE)
    /\ AddrFrame
    /\ UNCHANGED nextAddr
    /\ LET gate == RunMiddlewares(adminRoutes.updateAddress, tok) IN
       IF gate # Proceed
       THEN /\ res' = Rejected(gate)
            /\ UNCHANGED addresses
       ELSE IF aid = Malformed
       THEN /\ res' = Response(500, "Internal server error")
            /\ UNCHANGED addresses
       ELSE IF uid \notin DOMAIN users \/ aid \notin DOMAIN addresses
       THEN /\ res' = Response(404, "User or delivery address not found")
            /\ UNCHANGED addresses
       ELSE /\ addresses' = SaveModified(addresses, aid, addresses[aid], addresses[aid])
            /\ res' = Response(200, "Delivery address updated successfully")

\* ------------------------------------------------------------------ orders

\* The Order document: the paths the handlers write and query.  status is
\* written by order placement and read by tracking and the admin listing;
\* orderStatus and date are written by cancel and reschedule.
OrderSchema(userId, restaurantId, status, orderStatus, date) ==
    [userId |-> userId, restaurantId |-> restaurantId, status |-> status,
     orderStatus |-> orderStatus, date |-> date]

NewOrderOfBodyUser(user, body) ==
    OrderSchema(IF body.userId # NoField THEN body.userId ELSE user,
                body.restaurantId, "preparing", "unset", "unset")

\* new Order({ userId: req.user._id, restaurantId, items, deliveryAddressId,
\*             status: "preparing" })
NewOrder(user, body) ==
    OrderSchema(user, body.restaurantId, "preparing", "unset", "unset")

\* Bodies of an order placement; valid: the document passes the schema's
\* validation.  A userId in the body is not read.
OrderBodies ==
    [restaurantId : {1}, userId : {NoField} \cup BodyUserIds, valid : BOOLEAN]

\* Model.find(query): the ids of the matching documents, in insertion order.
Find(O, Match(_)) ==
    SelectSeq([i \in 1..Len(O) |-> i], LAMBDA i : Match(O[i]))

\* Order.find({ userId: req.user._id })
History(O, user) == Find(O, LAMBDA o : o.userId = user)

\* The query of the admin listing: if (status) query.status = status
ListQuery(O, status) ==
    Find(O, LAMBDA o : status = "absent" \/ o.status = status)

\* .skip((page - 1) * limit).limit(parseInt(limit))
Page(s, page, limit) ==
    LET skip == (page - 1) * limit
        last == IF skip + limit < Len(s) THEN skip + limit ELSE Len(s)
    IN  SubSeq(s, skip + 1, last)

\* Math.ceil(totalOrders / limit)
totalPages(totalOrders, limit) == (totalOrders + limit - 1) \div limit

\* res.json({ data: orders, page, totalPages: Math.ceil(totalOrders / limit),
\*            totalOrders })
Listing(data, page, totalOrders, limit) ==
    [status |-> 200, body |-> "", cookie |-> NoToken, data |-> data, page |-> page,
     totalPages |-> totalPages(totalOrders, limit), totalOrders |-> totalOrders]

OrderFrame ==
    UNCHANGED <<users, tokens, addresses, nextAddr, inflight, tick, now, restaurants,
                menus, nextMenu>>

\* customerRouter.post("/orders", userAuth, ...)
PlaceOrder(tok, body) ==
    /\ req' = Request("placeOrder", tok, NoField, nextOrder, FALSE)
    /\ OrderFrame
    /\ IF userAuth(tok) = NoToken
       THEN /\ res' = Response(401, "Unauthenticated")
            /\ UNCHANGED <<orders, nextOrder>>
       ELSE IF ~body.valid
       THEN /\ res' = Response(500, "Failed to place order")
            /\ UNCHANGED <<orders, nextOrder>>
       ELSE /\ nextOrder <= MaxOrders
            /\ orders' = Insert(orders, nextOrder, NewOrder(userAuth(tok), body))
            /\ nextOrder' = nextOrder + 1
            /\ res' = ResponseData(201, "Order placed successfully", <<nextOrder>>)

TrackOrderForbidden(tok, oid) ==
    /\ req' = Request("trackOrder", tok, NoField, oid, FALSE)
    /\ OrderFrame
    /\ UNCHANGED <<orders, nextOrder>>
    /\ IF userAuth(tok) = NoToken
       THEN res' = Response(401, "Unauthenticated")
       ELSE IF oid = Malformed
       THEN res' = Response(500, "Failed to track order")
       ELSE IF oid \notin DOMAIN orders
       THEN res' = Response(404, "Order not found")
       ELSE IF orders[oid].userId # userAuth(tok)
       THEN res' = Response(403, "Forbidden")
       ELSE res' = Response(200, orders[oid].status)

\* customerRouter.get("/orders/:orderId/track", userAuth, ...)
TrackOrder(tok, oid) ==
    /\ req' = Request("trackOrder", tok, NoField, oid, FALSE)
    /\ OrderFrame
    /\ UNCHANGED <<orders, nextOrder>>
    /\ IF userAuth(tok) = NoToken
       THEN res' = Response(401, "Unauthenticated")
       ELSE IF oid = Malformed
       THEN res' = Response(500, "Failed to track order")
       ELSE IF oid \notin DOMAIN orders \/ orders[oid].userId # userAuth(tok)
       THEN res' = Response(404, "Order not found")
       ELSE res' = Response(200, orders[oid].status)

\* customerRouter.get("/orders/history", userAuth, ...)
OrderHistory(tok) ==
    /\ req' = Request("orderHistory", tok, NoField, NoField, FALSE)
    /\ OrderFrame
    /\ UNCHANGED <<orders, nextOrder>>
    /\ IF userAuth(tok) = NoToken
       THEN res' = Response(401, "Unauthenticated")
       ELSE res' = ResponseData(200, "", History(orders, userAuth(tok)))

\* adminRouter.get('/orders', userAuth, isAdmin, ...)
AdminListOrders(tok, status, page, limit) ==
    /\ req' = RestRequest("adminListOrders", tok, NoField, NoField,
                          [status |-> status, page |-> page, limit |-> limit])
    /\ OrderFrame
    /\ UNCHANGED <<orders, nextOrder>>
    /\ LET gate == RunMiddlewares(adminRoutes.listOrders, tok) IN
       IF gate # Proceed
       THEN res' = Rejected(gate)
       ELSE res' = Listing(Page(ListQuery(orders, status), page, limit), page,
                           Len(ListQuery(orders, status)), limit)

\* adminRouter.get('/orders/:orderId', userAuth, isAdmin, ...)
AdminGetOrder(tok, oid) ==
    /\ req' = Request("adminGetOrder", tok, NoField, oid, FALSE)
    /\ OrderFrame
    /\ UNCHANGED <<orders, nextOrder>>
    /\ LET gate == RunMiddlewares(adminRoutes.getOrder, tok) IN
       IF gate # Proceed
       THEN res' = Rejected(gate)
       ELSE IF oid = Malformed
       THEN res' = Response(500, "Failed to fetch order details")
       ELSE IF oid \notin DOMAIN orders
       THEN res' = Response(404, "Order not found")
       ELSE res' = ResponseData(200, "", <<oid>>)

CancelledLosesDate(order) == [order EXCEPT !.orderStatus = "Cancelled", !.date = "unset"]

\* order.orderStatus = 'Cancelled'
Cancelled(order) == [order EXCEPT !.orderStatus = "Cancelled"]

\* adminRouter.post('/orders/:orderId/cancel', ...)
CancelOrder(tok, oid) ==
    /\ req' = Request("cancelOrder", tok, NoField, oid, FALSE)
    /\ OrderFrame
    /\ UNCHANGED nextOrder
    /\ LET gate == RunMiddlewares(adminRoutes.cancelOrder, tok) IN
       IF gate # Proceed
       THEN /\ res' = Rejected(gate)
            /\ UNCHANGED orders
       ELSE IF oid = Malformed
       THEN /\ res' = Response(500, "Failed to cancel order")
            /\ UNCHANGED orders
       ELSE IF oid \notin DOMAIN orders
       THEN /\ res' = Response(404, "Order not found")
            /\ UNCHANGED orders
       ELSE /\ orders' = [orders EXCEPT ![oid] = Cancelled(@)]
            /\ res' = Response(200, "Order cancelled successfully")

\* order.date = newDate; order.orderStatus = 'Rescheduled'
Rescheduled(order, newDate) ==
    [order EXCEPT !.date = newDate, !.orderStatus = "Rescheduled"]

\* adminRouter.patch('/orders/:orderId/reschedule', userAuth, isAdmin, ...)
RescheduleOrder(tok, oid, newDate) ==
    /\ req' = Request("rescheduleOrder", tok, NoField, oid, FALSE)
    /\ OrderFrame
    /\ UNCHANGED nextOrder
    /\ LET gate == RunMiddlewares(adminRoutes.rescheduleOrder, tok) IN
       IF gate # Proceed
       THEN /\ res' = Rejected(gate)
            /\ UNCHANGED orders
       ELSE IF oid = Malformed
       THEN /\ res' = Response(500, "Failed to reschedule order")
            /\ UNCHANGED orders
       ELSE IF oid \notin DOMAIN orders
       THEN /\ res' = Response(404, "Order not found")
            /\ UNCHANGED orders
       ELSE /\ orders' = [orders EXCEPT ![oid] = Rescheduled(@, newDate)]
            /\ res' = ResponseData(200, "Order rescheduled successfully", <<oid>>)

\* ------------------------------------------------------------------- users

\* bcrypt.hash(password, 10)
Hash(password) == <<"bcrypt", password>>

\* user.validatePassword(password): bcrypt's comparison with the stored hash.
validatePassword(user, password) == user.password = Hash(password)

\* new User({ firstName, lastName, emailId, password: passwordHash, role, gender });
\* a new user is active, has no phone number and was never active.
NewUser(body) ==
    [role |-> body.role, status |-> "active", emailId |-> body.emailId,
     password |-> Hash(body.password), firstName |-> body.firstName,
     lastName |-> body.lastName, gender |-> body.gender, phoneNumber |-> "absent",
     lastActiveAt |-> 0]

\* User.findOne({ emailId }): the id of the user, NoField when there is none.
FindByEmail(emailId) ==
    IF \E u \in DOMAIN users : users[u].emailId = emailId
    THEN CHOOSE u \in DOMAIN users : users[u].emailId = emailId
    ELSE NoField

\* A login request: no cookie; uid is the user the email names.
LoginRequest(op, emailId, password) ==
    [op |-> op, tok |-> NoToken, uid |-> FindByEmail(emailId), id |-> NoField,
     def |-> FALSE, password |-> password]

\* res.cookie("token", await user.getJWT(), ...)
WithCookie(status, body, user) ==
    [status |-> status, body |-> body, cookie |-> user, data |-> << >>]

UserFrame ==
    UNCHANGED <<addresses, nextAddr, orders, nextOrder, inflight, tick, now, restaurants,
                menus, nextMenu>>

\* The generic and the admin login: the user exists and the password verifies.
\* authRouter.post("/login", ...), adminRouter.post("/login", ...)
Login(op, emailId, password, success) ==
    LET user == FindByEmail(emailId) IN
    /\ req' = LoginRequest(op, emailId, password)
    /\ UserFrame
    /\ UNCHANGED users
    /\ IF user = NoField \/ ~validatePassword(users[user], password)
       THEN /\ res' = Response(400, "ERROR : Invalid credentials")
            /\ UNCHANGED tokens
       ELSE /\ res' = WithCookie(200, success, user)
            /\ tokens' = tokens \cup {user}

\* authRouter.post("/login", ...)
AuthLogin(emailId, password) == Login("authLogin", emailId, password, "user")

\* adminRouter.post("/login", ...)
AdminLogin(emailId, password) ==
    /\ RunMiddlewares(adminRoutes.login, NoToken) = Proceed
    /\ Login("adminLogin", emailId, password, "User login successfully")

CustomerLoginAnyStatus(emailId, password) ==
    Login("customerLogin", emailId, password, "user")

\* customerRouter.post("/login", ...)
CustomerLogin(emailId, password) ==
    LET user == FindByEmail(emailId) IN
    /\ req' = LoginRequest("customerLogin", emailId, password)
    /\ UserFrame
    /\ UNCHANGED users
    /\ IF user = NoField \/ users[user].role # "customer" \/ users[user].status # "active"
       THEN /\ res' = Response(400, "ERROR : Invalid credentials or inactive account")
            /\ UNCHANGED tokens
       ELSE IF ~validatePassword(users[user], password)
       THEN /\ res' = Response(400, "ERROR : Invalid credentials")
            /\ UNCHANGED tokens
       ELSE /\ res' = WithCookie(200, "user", user)
            /\ tokens' = tokens \cup {user}

\* restaurantRouter.post("/login", ...)
RestaurantLogin(emailId, password) ==
    LET user == FindByEmail(emailId) IN
    /\ req' = LoginRequest("restaurantLogin", emailId, password)
    /\ UserFrame
    /\ UNCHANGED users
    /\ IF user = NoField
       THEN /\ res' = Response(400, "ERROR : Invalid credentials")
            /\ UNCHANGED tokens
       ELSE IF users[user].role # "restaurant"
       THEN /\ res' = Response(400, "ERROR : Invalid role")
            /\ UNCHANGED tokens
       ELSE IF users[user].status # "active"
       THEN /\ res' = Response(400, "ERROR : Customer account is not active")
            /\ UNCHANGED tokens
       ELSE IF ~validatePassword(users[user], password)
       THEN /\ res' = Response(400, "ERROR : Invalid credentials")
            /\ UNCHANGED tokens
       ELSE /\ res' = WithCookie(200, "user", user)
            /\ tokens' = tokens \cup {user}

\* adminRouter.post("/logout", userAuth, isAdmin, ...): the cookie is replaced
\* by an expired null cookie and the admin's lastActiveAt is set.
AdminLogout(tok) ==
    /\ req' = Request("adminLogout", tok, NoField, NoField, FALSE)
    /\ UserFrame
    /\ UNCHANGED tokens
    /\ LET gate == RunMiddlewares(adminRoutes.logout, tok) IN
       IF gate # Proceed
       THEN /\ res' = Rejected(gate)
            /\ UNCHANGED users
       ELSE /\ users' = [users EXCEPT ![userAuth(tok)].lastActiveAt = now]
            /\ res' = Response(200, "Logout is successfull!!")

\* validateSignUpData(req), then the unique index on emailId at user.save().
SignUpError(body) ==
    IF ~body.valid THEN "invalid"
    ELSE IF FindByEmail(body.emailId) # NoField THEN "duplicate"
    ELSE "none"

\* adminRouter.post("/register/users", userAuth, isAdmin, ...)
AdminRegisterUsers(tok, body) ==
    /\ req' = Request("adminRegisterUsers", tok, NoField, Len(users) + 1, FALSE)
    /\ UserFrame
    /\ UNCHANGED tokens
    /\ LET gate == RunMiddlewares(adminRoutes.registerUsers, tok) IN
       IF gate # Proceed
       THEN /\ res' = Rejected(gate)
            /\ UNCHANGED users
       ELSE IF SignUpError(body) # "none"
       THEN /\ res' = Response(400, "ERROR : " \o SignUpError(body))
            /\ UNCHANGED users
       ELSE /\ Len(users) < MaxUsers
            /\ users' = Insert(users, Len(users) + 1, NewUser(body))
            /\ res' = Response(200, "User Data added successfully!")

\* adminRouter.patch("/users/deactivate/:userId", userAuth, isAdmin, ...)
AdminDeactivateUser(tok, uid) ==
    /\ req' = Request("adminDeactivateUser", tok, uid, NoField, FALSE)
    /\ UserFrame
    /\ UNCHANGED tokens
    /\ LET gate == RunMiddlewares(adminRoutes.deactivateUser, tok) IN
       IF gate # Proceed
       THEN /\ res' = Rejected(gate)
            /\ UNCHANGED users
       ELSE IF uid \notin DOMAIN users
       THEN /\ res' = Response(400, "Error deactivating user")
            /\ UNCHANGED users
       ELSE /\ users' = [users EXCEPT ![uid].status = "inactive"]
            /\ res' = Response(200, "User deactivated")

PatchedUserWholeBody(user, body) ==
    [user EXCEPT
        !.phoneNumber = IF body.phoneNumber # "absent" THEN body.phoneNumber ELSE @,
        !.firstName   = IF body.firstName # "absent" THEN body.firstName ELSE @,
        !.lastName    = IF body.lastName # "absent" THEN body.lastName ELSE @,
        !.status      = IF body.status # "absent" THEN body.status ELSE @,
        !.role        = IF "role" \in DOMAIN body /\ body.role # "absent"
                        THEN body.role ELSE @]

\* if (phoneNumber) updateData['phoneNumber'] = phoneNumber; ... { $set: updateData }
PatchedUser(user, body) ==
    [user EXCEPT
        !.phoneNumber = IF body.phoneNumber # "absent" THEN body.phoneNumber ELSE @,
        !.firstName   = IF body.firstName # "absent" THEN body.firstName ELSE @,
        !.lastName    = IF body.lastName # "absent" THEN body.lastName ELSE @,
        !.status      = IF body.status # "absent" THEN body.status ELSE @]

\* adminRouter.patch("/users/:userId", userAuth, isAdmin, ...)
AdminPatchUser(tok, uid, body) ==
    /\ req' = RestRequest("adminPatchUser", tok, uid, NoField, body)
    /\ UserFrame
    /\ UNCHANGED tokens
    /\ LET gate == RunMiddlewares(adminRoutes.patchUser, tok) IN
       IF gate # Proceed
       THEN /\ res' = Rejected(gate)
            /\ UNCHANGED users
       ELSE IF uid = Malformed
       THEN /\ res' = Response(400, "Error updating user")
            /\ UNCHANGED users
       ELSE IF uid \notin DOMAIN users
       THEN /\ res' = Response(404, "User not found")
            /\ UNCHANGED users
       ELSE /\ users' = [users EXCEPT ![uid] = PatchedUser(@, body)]
            /\ res' = Response(200, "User details updated successfully")

\* The reports and monitors of adminRouter: they aggregate over Order and
\* User and write nothing.
\* adminRouter.get('/reports/...', userAuth, isAdmin, ...),
\* adminRouter.get('/monitor/...', userAuth, isAdmin, ...)
AdminReport(route, tok) ==
    /\ req' = Request(route, tok, NoField, NoField, FALSE)
    /\ UNCHANGED <<users, tokens, addresses, nextAddr, orders, nextOrder, inflight,
                   tick, now, restaurants, menus, nextMenu>>
    /\ LET gate == RunMiddlewares(adminRoutes[route], tok) IN
       IF gate # Proceed
       THEN res' = Rejected(gate)
       ELSE res' = Response(200, "report")

ReportRoutes ==
    {"popularRestaurants", "averageDeliveryTime", "orderTrends", "activeUsers",
     "deliveryActivity", "orderStatuses"}

\* new Date(Date.now() - timeframe * 60 * 1000)
activeSince(timeframe) == now - timeframe

\* User.countDocuments({ lastActiveAt: { $gte: activeSince } }): a user whose
\* lastActiveAt was never written (0) does not match.
activeUserCount(U, since) ==
    Cardinality({u \in DOMAIN U : U[u].lastActiveAt # 0 /\ U[u].lastActiveAt >= since})

\* adminRouter.get('/monitor/active-users', userAuth, isAdmin, ...)
MonitorActiveUsers(tok, timeframe) ==
    /\ req' = RestRequest("activeUsers", tok, NoField, NoField, timeframe)
    /\ UNCHANGED <<users, tokens, addresses, nextAddr, orders, nextOrder, inflight,
                   tick, now, restaurants, menus, nextMenu>>
    /\ LET gate == RunMiddlewares(adminRoutes.activeUsers, tok) IN
       IF gate # Proceed
       THEN res' = Rejected(gate)
       ELSE res' = [status |-> 200, body |-> "", cookie |-> NoToken, data |-> << >>,
                    activeUserCount |-> activeUserCount(users, activeSince(timeframe))]

\* A minute passes.
Elapse ==
    /\ now < MaxNow
    /\ now' = now + 1
    /\ UNCHANGED <<users, tokens, addresses, nextAddr, orders, nextOrder, req, res,
                   inflight, tick, restaurants, menus, nextMenu>>

\* ------------------------------------------------------------- restaurants

\* isAdminOrRestaurant(userId) throws: the id is missing, names no user, or
\* names a user who is neither admin nor restaurant.
isAdminOrRestaurant(userId) ==
    IF userId = NoField THEN "User ID not found in the request"
    ELSE IF userId \notin DOMAIN users
            \/ users[userId].role \notin {"admin", "restaurant"}
    THEN "Invalid Authorization"
    ELSE "ok"

\* The handlers call the async isAdminOrRestaurant without await: what it
\* throws rejects a promise nobody handles. The runtime either warns and goes
\* on ("warn"), or ends the process, before ("exitEarly") or after
\* ("exitLate") the handler's database operation was sent.
Rejections == {"warn", "exitEarly", "exitLate"}

\* The process ended before it answered.
NoResponse == [status |-> 0, body |-> "no response", cookie |-> NoToken, data |-> << >>]

\* The handler's database operation runs.
Runs(userId, rejection) ==
    isAdminOrRestaurant(userId) = "ok" \/ rejection # "exitEarly"

\* The answer the client gets when the handler would send response.
Answer(userId, rejection, response) ==
    IF isAdminOrRestaurant(userId) = "ok" \/ rejection = "warn"
    THEN response ELSE NoResponse

\* JavaScript truthiness of a body field.
TruthyField(v) == v \notin {"absent", "false", "0", ""}

\* A query condition { name: value }: the document has the path, with that value.
Matches(doc, name, value) == name \in DOMAIN doc /\ doc[name] = value

RestFrame ==
    UNCHANGED <<users, tokens, addresses, nextAddr, nextOrder, inflight, tick, now>>

\* new Restaurant({ owner, restaurantName, ... })
NewRestaurant(owner, body) == [owner |-> owner, restaurantName |-> body.restaurantName]

\* restaurantRouter.post("/register/:userId", ...)
RegisterRestaurant(userId, body, rejection) ==
    /\ req' = RestRequest("registerRestaurant", NoToken, userId, Len(restaurants) + 1, body)
    /\ RestFrame
    /\ UNCHANGED <<menus, nextMenu, orders>>
    /\ IF ~Runs(userId, rejection)
       THEN /\ res' = NoResponse
            /\ UNCHANGED restaurants
       ELSE IF userId = Malformed \/ body.restaurantName = "absent"
       THEN /\ res' = Answer(userId, rejection, Response(400, "ERROR : validation"))
            /\ UNCHANGED restaurants
       ELSE /\ Len(restaurants) < MaxRestaurants
            /\ restaurants' = Append(restaurants, NewRestaurant(userId, body))
            /\ res' = Answer(userId, rejection,
                   ResponseData(200, "Restaurant added successfully!",
                                <<Len(restaurants) + 1>>))

\* restaurantRouter.get("/:userId", userAuth, ...)
GetRestaurant(tok, userId, rejection) ==
    /\ req' = RestRequest("getRestaurant", tok, userId, NoField, "none")
    /\ RestFrame
    /\ UNCHANGED <<restaurants, menus, nextMenu, orders>>
    /\ IF userAuth(tok) = NoToken
       THEN res' = Response(401, "Unauthenticated")
       ELSE IF ~Runs(userId, rejection)
       THEN res' = NoResponse
       ELSE res' = Answer(userId, rejection,
                ResponseData(200, "Restaurant Found !!!",
                             Find(restaurants, LAMBDA r : r.owner = userId)))

\* restaurantRouter.patch("/:restaurantId", userAuth, ...)
PatchRestaurant(tok, restaurantId, body, rejection) ==
    /\ req' = RestRequest("patchRestaurant", tok, body.userId, restaurantId, body)
    /\ RestFrame
    /\ UNCHANGED <<menus, nextMenu, orders>>
    /\ IF userAuth(tok) = NoToken
       THEN /\ res' = Response(401, "Unauthenticated")
            /\ UNCHANGED restaurants
       ELSE IF ~Runs(body.userId, rejection)
       THEN /\ res' = NoResponse
            /\ UNCHANGED restaurants
       ELSE IF restaurantId = Malformed
       THEN /\ res' = Answer(body.userId, rejection, Response(400, "Error updating user"))
            /\ UNCHANGED restaurants
       ELSE IF restaurantId \notin DOMAIN restaurants
       THEN /\ res' = Answer(body.userId, rejection,
                             Response(404, "Restaurent Details not found"))
            /\ UNCHANGED restaurants
       ELSE /\ restaurants' =
                   [restaurants EXCEPT ![restaurantId].restaurantName =
                       IF TruthyField(body.restaurantName) THEN body.restaurantName ELSE @]
            /\ res' = Answer(body.userId, rejection,
                             ResponseData(200, "", <<restaurantId>>))

\* restaurantRouter.get("/menu/:userId/:restaurantId", userAuth, ...)
ListMenu(tok, userId, restaurantId, rejection) ==
    /\ req' = RestRequest("listMenu", tok, userId, restaurantId, "none")
    /\ RestFrame
    /\ UNCHANGED <<restaurants, menus, nextMenu, orders>>
    /\ IF userAuth(tok) = NoToken
       THEN res' = Response(401, "Unauthenticated")
       ELSE IF ~Runs(userId, rejection)
       THEN res' = NoResponse
       ELSE IF restaurantId = Malformed
       THEN res' = Answer(userId, rejection, Response(400, "ERROR : Cast to ObjectId failed"))
       ELSE res' = Answer(userId, rejection,
                ResponseData(200, "List of all items in Menu",
                    SelectSeq([i \in 1..(nextMenu - 1) |-> i],
                              LAMBDA i : i \in DOMAIN menus
                                         /\ menus[i].restaurant = restaurantId)))

\* new Menu({ restaurant, itemName, description, price, availability })
NewItem(body) ==
    [restaurant |-> body.restaurant, itemName |-> body.itemName, price |-> body.price,
     availability |-> body.availability]

\* restaurantRouter.post("/item/:userId", userAuth, ...)
CreateItem(tok, userId, body, rejection) ==
    /\ req' = RestRequest("createItem", tok, userId, nextMenu, body)
    /\ RestFrame
    /\ UNCHANGED <<restaurants, orders>>
    /\ IF userAuth(tok) = NoToken
       THEN /\ res' = Response(401, "Unauthenticated")
            /\ UNCHANGED <<menus, nextMenu>>
       ELSE IF ~Runs(userId, rejection)
       THEN /\ res' = NoResponse
            /\ UNCHANGED <<menus, nextMenu>>
       ELSE IF body.itemName = "absent"
       THEN /\ res' = Answer(userId, rejection, Response(400, "ERROR : validation"))
            /\ UNCHANGED <<menus, nextMenu>>
       ELSE /\ nextMenu <= MaxMenu
            /\ menus' = Insert(menus, nextMenu, NewItem(body))
            /\ nextMenu' = nextMenu + 1
            /\ res' = Answer(userId, rejection,
                             ResponseData(201, "Item added Successfully!!!", <<nextMenu>>))

\* if (itemName) updateData['itemName'] = itemName; ... { $set: updateData }
PatchedItem(item, body) ==
    [item EXCEPT
        !.itemName     = IF TruthyField(body.itemName) THEN body.itemName ELSE @,
        !.price        = IF TruthyField(body.price) THEN body.price ELSE @,
        !.availability = IF TruthyField(body.availability) THEN body.availability ELSE @]

\* restaurantRouter.patch("/item/:itemId", userAuth, ...)
PatchItem(tok, itemId, body, rejection) ==
    /\ req' = RestRequest("patchItem", tok, body.userId, itemId, body)
    /\ RestFrame
    /\ UNCHANGED <<restaurants, nextMenu, orders>>
    /\ IF userAuth(tok) = NoToken
       THEN /\ res' = Response(401, "Unauthenticated")
            /\ UNCHANGED menus
       ELSE IF ~Runs(body.userId, rejection)
       THEN /\ res' = NoResponse
            /\ UNCHANGED menus
       ELSE IF itemId = Malformed
       THEN /\ res' = Answer(body.userId, rejection, Response(400, "Error updating user"))
            /\ UNCHANGED menus
       ELSE IF itemId \notin DOMAIN menus
       THEN /\ res' = Answer(body.userId, rejection, Response(404, "MenuItem not found"))
            /\ UNCHANGED menus
       ELSE /\ menus' = [menus EXCEPT ![itemId] = PatchedItem(@, body)]
            /\ res' = Answer(body.userId, rejection, ResponseData(200, "", <<itemId>>))

\* Menu.deleteOne(menuItem), neither awaited nor executed: a query that is
\* built and dropped deletes nothing.
DeleteOne(M, itemId) == M

\* restaurantRouter.delete("/item/:userId/:menuItemId", userAuth, ...)
DeleteItem(tok, userId, menuItemId, rejection) ==
    /\ req' = RestRequest("deleteItem", tok, userId, menuItemId, "none")
    /\ RestFrame
    /\ UNCHANGED <<restaurants, nextMenu, orders>>
    /\ IF userAuth(tok) = NoToken
       THEN /\ res' = Response(401, "Unauthenticated")
            /\ UNCHANGED menus
       ELSE IF ~Runs(userId, rejection)
       THEN /\ res' = NoResponse
            /\ UNCHANGED menus
       ELSE IF menuItemId = Malformed
       THEN /\ res' = Answer(userId, rejection,
                             Response(400, "ERROR : Cast to ObjectId failed"))
            /\ UNCHANGED menus
       ELSE IF menuItemId \notin DOMAIN menus
       THEN /\ res' = Answer(userId, rejection,
                             Response(400, "ERROR : Menu Item not found to Delete!!!"))
            /\ UNCHANGED menus
       ELSE /\ menus' = DeleteOne(menus, menuItemId)
            /\ res' = Answer(userId, rejection,
                             Response(201, "Menu Item Deleted Successfully!!!"))

\* Order.find({ restaurant: restaurantId, orderStatus: status })
RestaurantOrders(O, restaurantId, status) ==
    Find(O, LAMBDA o : Matches(o, "restaurant", restaurantId)
                       /\ Matches(o, "orderStatus", status))

\* restaurantRouter.get("/orders/:userId/:restaurantId/:status", userAuth, ...)
RestaurantListOrders(tok, userId, restaurantId, status, rejection) ==
    /\ req' = RestRequest("restaurantListOrders", tok, userId, restaurantId, status)
    /\ RestFrame
    /\ UNCHANGED <<restaurants, menus, nextMenu, orders>>
    /\ IF userAuth(tok) = NoToken
       THEN res' = Response(401, "Unauthenticated")
       ELSE IF ~Runs(userId, rejection)
       THEN res' = NoResponse
       ELSE IF restaurantId = Malformed
       THEN res' = Answer(userId, rejection, Response(400, "ERROR : Cast to ObjectId failed"))
       ELSE res' = Answer(userId, rejection,
                ResponseData(200, "List of all Orders with status - " \o status,
                             RestaurantOrders(orders, restaurantId, status)))

PatchOrderBehindAuth(orderId, body, rejection) ==
    /\ req' = RestRequest("patchOrder", NoToken, body.userId, orderId, body)
    /\ RestFrame
    /\ UNCHANGED <<restaurants, menus, nextMenu, orders>>
    /\ res' = Response(401, "Unauthenticated")

\* restaurantRouter.patch("/order/:orderId", ...)
PatchOrder(orderId, body, rejection) ==
    /\ req' = RestRequest("patchOrder", NoToken, body.userId, orderId, body)
    /\ RestFrame
    /\ UNCHANGED <<restaurants, menus, nextMenu>>
    /\ IF ~Runs(body.userId, rejection)
       THEN /\ res' = NoResponse
            /\ UNCHANGED orders
       ELSE IF orderId = Malformed
       THEN /\ res' = Answer(body.userId, rejection, Response(400, "Error updating user"))
            /\ UNCHANGED orders
       ELSE IF orderId \notin DOMAIN orders
       THEN /\ res' = Answer(body.userId, rejection,
                             Response(404, "Order Details not found"))
            /\ UNCHANGED orders
       ELSE /\ orders' =
                   [orders EXCEPT ![orderId].orderStatus =
                       IF TruthyField(body.orderStatus) THEN body.orderStatus ELSE @]
            /\ res' = Answer(body.userId, rejection, ResponseData(200, "", <<orderId>>))

\* ------------------------------------------- address requests in flight
\* The customer create and update handlers, one step per await: a handler runs
\* from one await to the next without interruption, and between two awaits of
\* one request the runtime may run steps of the other.

\* The two requests in flight.
Requests == 1..2

\* No document loaded.
NoDoc == [userId |-> NoField, isDefault |-> FALSE]

Idle ==
    [op |-> "none", uid |-> NoField, aid |-> NoField, isDefault |-> "absent",
     pc |-> "idle", address |-> NoDoc, cleared |-> 0, saved |-> 0, status |-> 0]

\* Bodies of the requests in flight: they name no userId.
RaceBodies == {b \in AddrBodies : b.userId = NoField}

Body(r) == [missing |-> "none", isDefault |-> r.isDefault, userId |-> NoField]

Done(r, status) == [r EXCEPT !.pc = "done", !.status = status]

RaceFrame ==
    UNCHANGED <<users, tokens, orders, nextOrder, req, res, now, restaurants, menus,
                nextMenu>>

\* The request arrives and userAuth runs; the handler starts at User.findById.
Receive(p, op, tok, uid, aid, body) ==
    /\ inflight[p].pc = "idle"
    /\ LET r == [Idle EXCEPT !.op = op, !.uid = uid, !.aid = aid,
                             !.isDefault = body.isDefault]
       IN  inflight' = [inflight EXCEPT ![p] =
               IF userAuth(tok) = NoToken THEN Done(r, 401)
               ELSE [r EXCEPT !.pc = "findUser"]]
    /\ UNCHANGED <<addresses, nextAddr, tick>>
    /\ RaceFrame

\* await User.findById(userId); create goes on to updateMany or to save.
FindUser(p) ==
    LET r == inflight[p] IN
    /\ r.pc = "findUser"
    /\ inflight' = [inflight EXCEPT ![p] =
           IF r.uid \notin DOMAIN users THEN Done(r, 404)
           ELSE IF r.op = "customerUpdateAddress" THEN [r EXCEPT !.pc = "findAddress"]
           ELSE IF Truthy(r.isDefault) THEN [r EXCEPT !.pc = "updateMany"]
           ELSE [r EXCEPT !.pc = "save"]]
    /\ UNCHANGED <<addresses, nextAddr, tick>>
    /\ RaceFrame

\* await DeliveryAddress.findOne({ _id: addressId, userId: user._id })
FindAddress(p) ==
    LET r == inflight[p] IN
    /\ r.pc = "findAddress"
    /\ inflight' = [inflight EXCEPT ![p] =
           IF r.aid \notin DOMAIN addresses \/ addresses[r.aid].userId # r.uid
           THEN Done(r, 404)
           ELSE [r EXCEPT !.address = addresses[r.aid],
                          !.pc = IF Truthy(r.isDefault) THEN "updateMany" ELSE "save"]]
    /\ UNCHANGED <<addresses, nextAddr, tick>>
    /\ RaceFrame

\* await DeliveryAddress.updateMany({ userId, isDefault: true }, ...)
UpdateMany(p) ==
    LET r == inflight[p] IN
    /\ r.pc = "updateMany"
    /\ addresses' = ClearDefaults(addresses, r.uid)
    /\ tick' = tick + 1
    /\ inflight' = [inflight EXCEPT ![p] = [r EXCEPT !.pc = "save", !.cleared = tick']]
    /\ UNCHANGED nextAddr
    /\ RaceFrame

\* await newAddress.save() of create, await address.save() of update
Save(p) ==
    LET r == inflight[p] IN
    /\ r.pc = "save"
    /\ tick' = tick + 1
    /\ IF r.op = "customerCreateAddress"
       THEN /\ addresses' = Insert(addresses, nextAddr, NewAddress(r.uid, Body(r)))
            /\ nextAddr' = nextAddr + 1
            /\ inflight' = [inflight EXCEPT ![p] =
                   [Done(r, 201) EXCEPT !.aid = nextAddr, !.saved = tick']]
       ELSE /\ addresses' = SaveModified(addresses, r.aid, r.address,
                                         Assign(r.address, Body(r)))
            /\ UNCHANGED nextAddr
            /\ inflight' = [inflight EXCEPT ![p] =
                   [Done(r, 200) EXCEPT !.saved = tick']]
    /\ RaceFrame

\* ------------------------------------------------ registrations in flight
\* The four registration handlers, each stepping from one await to the next.

\* validateSignUpData(req): throws for a body it does not accept.
validateSignUpData(body) == body.valid

\* A request slot not in use.
RegIdle ==
    [op |-> "none", pc |-> "idle", tok |-> NoToken, body |-> << >>, user |-> NoField,
     restaurant |-> NoField, status |-> 0]

RegDone(r, status) == [r EXCEPT !.pc = "done", !.status = status]

\* The role a registration endpoint insists on, if any.
RoleAccepted(op, role) ==
    /\ op = "customerRegister" => role = "customer"
    /\ op = "restaurantRegister" => role = "restaurant"

RegOps == {"signup", "customerRegister", "restaurantRegister", "adminRegisterUsers"}

RegFrame ==
    UNCHANGED <<addresses, nextAddr, orders, nextOrder, req, res, tick, now, menus,
                nextMenu>>

\* The request arrives: the admin route's middlewares, validateSignUpData and
\* the role check run, then the handler awaits bcrypt.hash.
RegReceive(p, op, tok, body) ==
    /\ inflight[p].pc = "idle"
    /\ LET r == [RegIdle EXCEPT !.op = op, !.tok = tok, !.body = body]
           gate == IF op = "adminRegisterUsers"
                   THEN RunMiddlewares(adminRoutes.registerUsers, tok)
                   ELSE Proceed
       IN  inflight' = [inflight EXCEPT ![p] =
               IF gate # Proceed THEN RegDone(r, gate)
               ELSE IF ~validateSignUpData(body) \/ ~RoleAccepted(op, body.role)
               THEN RegDone(r, 400)
               ELSE [r EXCEPT !.pc = "saveUser"]]
    /\ UNCHANGED <<users, tokens, restaurants>>
    /\ RegFrame

RegSaveUserNoIndex(p) ==
    LET r == inflight[p]
        id == Len(users) + 1
    IN  /\ r.pc = "saveUser"
        /\ Len(users) < MaxUsers
        /\ users' = Insert(users, id, NewUser(r.body))
        /\ tokens' = IF r.op \in {"signup", "customerRegister"}
                     THEN tokens \cup {id} ELSE tokens
        /\ inflight' = [inflight EXCEPT ![p] =
               IF r.op = "restaurantRegister"
               THEN [r EXCEPT !.pc = "saveRestaurant", !.user = id]
               ELSE [RegDone(r, 200) EXCEPT !.user = id]]
        /\ UNCHANGED restaurants
        /\ RegFrame

\* await user.save(): the unique index on emailId refuses a taken email; the
\* restaurant registration goes on to save the Restaurant, the others set the
\* token cookie (the admin's does not) and answer.
RegSaveUser(p) ==
    LET r == inflight[p]
        id == Len(users) + 1
    IN  /\ r.pc = "saveUser"
        /\ IF FindByEmail(r.body.emailId) # NoField
           THEN /\ inflight' = [inflight EXCEPT ![p] = RegDone(r, 400)]
                /\ UNCHANGED <<users, tokens>>
           ELSE /\ Len(users) < MaxUsers
                /\ users' = Insert(users, id, NewUser(r.body))
                /\ tokens' = IF r.op \in {"signup", "customerRegister"}
                             THEN tokens \cup {id} ELSE tokens
                /\ inflight' = [inflight EXCEPT ![p] =
                       IF r.op = "restaurantRegister"
                       THEN [r EXCEPT !.pc = "saveRestaurant", !.user = id]
                       ELSE [RegDone(r, 200) EXCEPT !.user = id]]
        /\ UNCHANGED restaurants
        /\ RegFrame

\* await restaurant.save(): the Restaurant's validation may refuse it, after
\* the User was saved; otherwise the token cookie is set and the answer sent.
RegSaveRestaurant(p) ==
    LET r == inflight[p] IN
    /\ r.pc = "saveRestaurant"
    /\ IF r.body.restaurantName = "absent"
       THEN /\ inflight' = [inflight EXCEPT ![p] = RegDone(r, 400)]
            /\ UNCHANGED <<restaurants, tokens>>
       ELSE /\ restaurants' = Append(restaurants, NewRestaurant(r.user, r.body))
            /\ tokens' = tokens \cup {r.user}
            /\ inflight' = [inflight EXCEPT ![p] =
                   [RegDone(r, 200) EXCEPT !.restaurant = Len(restaurants) + 1]]
    /\ UNCHANGED users
    /\ RegFrame

\* ------------------------------------------------------------------- state

\* The seeded users: an admin and a customer, each holding a token cookie
\* from an earlier login.
SeedUsers ==
    [u \in BodyUserIds |->
        NewUser([role |-> IF u = 1 THEN "admin" ELSE "customer", emailId |-> u,
                 password |-> "pw", firstName |-> "n0", lastName |-> "n0",
                 gender |-> "g"])]

InitAddr ==
    /\ users = SeedUsers
    /\ tokens = DOMAIN SeedUsers
    /\ addresses = << >>
    /\ nextAddr = 1
    /\ orders = << >>
    /\ nextOrder = 1
    /\ req = Request("none", NoToken, NoField, NoField, FALSE)
    /\ res = Response(200, "")
    /\ inflight = [p \in Requests |-> Idle]
    /\ tick = 0
    /\ now = 1
    /\ restaurants = << >>
    /\ menus = << >>
    /\ nextMenu = 1

NextAddr ==
    \/ \E tok \in Cookies, uid \in UserIds, body \in AddrBodies \cup IncompleteBodies :
        CustomerCreateAddress(tok, uid, body)
    \/ \E tok \in Cookies, uid \in UserIds, aid \in {Malformed} \cup AddrIds,
          body \in AddrBodies :
        CustomerUpdateAddress(tok, uid, aid, body)
    \/ \E tok \in Cookies, uid \in UserIds, aid \in {Malformed} \cup AddrIds :
        CustomerDeleteAddress(tok, uid, aid)
    \/ \E tok \in Cookies, uid \in UserIds, body \in AddrBodies \cup IncompleteBodies :
        AdminCreateAddress(tok, uid, body)
    \/ \E tok \in Cookies, uid \in UserIds, aid \in {Malformed} \cup AddrIds :
        AdminUpdateAddress(tok, uid, aid)

SpecAddr == InitAddr /\ [][NextAddr]_vars

\* The two create routes alone.
NextCreate ==
    \/ \E tok \in Cookies, uid \in UserIds, body \in AddrBodies \cup IncompleteBodies :
        CustomerCreateAddress(tok, uid, body)
    \/ \E tok \in Cookies, uid \in UserIds, body \in AddrBodies \cup IncompleteBodies :
        AdminCreateAddress(tok, uid, body)

SpecCreate == InitAddr /\ [][NextCreate]_vars

\* The customer delete, over the addresses the create routes have stored.
NextDelete ==
    \/ \E tok \in Cookies, uid \in UserIds, body \in AddrBodies :
        CustomerCreateAddress(tok, uid, body)
    \/ \E tok \in Cookies, uid \in UserIds, aid \in {Malformed} \cup AddrIds :
        CustomerDeleteAddress(tok, uid, aid)

SpecDelete == InitAddr /\ [][NextDelete]_vars

\* Page sizes and pages of the admin listing (10 is the default limit).
Limits == {1, 10}

Pages == 1..MaxOrders

NextOrders ==
    \/ \E tok \in Cookies, body \in OrderBodies : PlaceOrder(tok, body)
    \/ \E tok \in Cookies, oid \in {Malformed} \cup OrderIds : TrackOrder(tok, oid)
    \/ \E tok \in Cookies : OrderHistory(tok)
    \/ \E tok \in Cookies, status \in {"absent", "preparing", "Cancelled"},
          page \in Pages, limit \in Limits :
        AdminListOrders(tok, status, page, limit)
    \/ \E tok \in Cookies, oid \in {Malformed} \cup OrderIds : AdminGetOrder(tok, oid)
    \/ \E tok \in Cookies, oid \in {Malformed} \cup OrderIds : CancelOrder(tok, oid)
    \/ \E tok \in Cookies, oid \in {Malformed} \cup OrderIds, newDate \in {"d1"} :
        RescheduleOrder(tok, oid, newDate)

SpecOrders == InitAddr /\ [][NextOrders]_vars

\* Emails a request can carry: the seeded users' and one more.
Emails == 1..(MaxUsers + 1)

Passwords == {"pw", "bad"}

\* The users of the login endpoints: an admin, a customer and a restaurant owner.
AuthSeedUsers ==
    [u \in 1..3 |->
        NewUser([role |-> IF u = 1 THEN "admin" ELSE IF u = 2 THEN "customer"
                          ELSE "restaurant",
                 emailId |-> u, password |-> "pw", firstName |-> "n0",
                 lastName |-> "n0", gender |-> "g"])]

\* Only the admin holds a token cookie.
InitAuth ==
    /\ users = AuthSeedUsers
    /\ tokens = {1}
    /\ addresses = << >>
    /\ nextAddr = 1
    /\ orders = << >>
    /\ nextOrder = 1
    /\ req = Request("none", NoToken, NoField, NoField, FALSE)
    /\ res = Response(200, "")
    /\ inflight = [p \in Requests |-> Idle]
    /\ tick = 0
    /\ now = 1
    /\ restaurants = << >>
    /\ menus = << >>
    /\ nextMenu = 1

\* A patch that reactivates the user.
Reactivate ==
    [phoneNumber |-> "absent", firstName |-> "absent", lastName |-> "absent",
     status |-> "active"]

NextAuth ==
    \/ \E emailId \in Emails, password \in Passwords : AuthLogin(emailId, password)
    \/ \E emailId \in Emails, password \in Passwords : AdminLogin(emailId, password)
    \/ \E emailId \in Emails, password \in Passwords : CustomerLogin(emailId, password)
    \/ \E emailId \in Emails, password \in Passwords : RestaurantLogin(emailId, password)
    \/ \E tok \in Cookies, uid \in {Malformed} \cup UserIds : AdminDeactivateUser(tok, uid)
    \/ \E tok \in Cookies, uid \in UserIds : AdminPatchUser(tok, uid, Reactivate)

SpecAuth == InitAuth /\ [][NextAuth]_vars

\* The admin group works on a database that holds an order and a default
\* address of the customer.
InitAdmin ==
    /\ users = SeedUsers
    /\ tokens = DOMAIN SeedUsers
    /\ addresses = <<[userId |-> 2, isDefault |-> TRUE]>>
    /\ nextAddr = 2
    /\ orders = <<OrderSchema(2, 1, "preparing", "unset", "unset")>>
    /\ nextOrder = 2
    /\ req = Request("none", NoToken, NoField, NoField, FALSE)
    /\ res = Response(200, "")
    /\ inflight = [p \in Requests |-> Idle]
    /\ tick = 0
    /\ now = 1
    /\ restaurants = << >>
    /\ menus = << >>
    /\ nextMenu = 1

\* A patch of the name and the status.
PatchBodies ==
    {[phoneNumber |-> "absent", firstName |-> "n1", lastName |-> "n1",
      status |-> "inactive"]}

\* Registrations of a customer: a new email or a taken one, valid or not.
SignUpBodies ==
    [role : {"customer"}, emailId : {2, 3}, password : {"pw"},
     firstName : {"n0"}, lastName : {"n0"}, gender : {"g"}, valid : BOOLEAN]

AdminAddrBodies ==
    [missing : {"none", "city"}, isDefault : {"true"}, userId : {NoField}]

\* The users the admin's requests name: the customer and the user a
\* registration adds.
Targets == {2, 3}

NextAdmin ==
    \/ \E emailId \in {2, 4}, password \in Passwords :
        AdminLogin(emailId, password)
    \/ \E tok \in Cookies : AdminLogout(tok)
    \/ \E tok \in Cookies, body \in SignUpBodies : AdminRegisterUsers(tok, body)
    \/ \E tok \in Cookies, uid \in {Malformed} \cup Targets : AdminDeactivateUser(tok, uid)
    \/ \E tok \in Cookies, uid \in {Malformed} \cup Targets, body \in PatchBodies :
        AdminPatchUser(tok, uid, body)
    \/ \E tok \in Cookies, uid \in Targets, body \in AdminAddrBodies :
        AdminCreateAddress(tok, uid, body)
    \/ \E tok \in Cookies, uid \in Targets, aid \in {Malformed} \cup AddrIds :
        AdminUpdateAddress(tok, uid, aid)
    \/ \E tok \in Cookies, status \in {"absent", "preparing"}, page \in {1},
          limit \in {10} :
        AdminListOrders(tok, status, page, limit)
    \/ \E tok \in Cookies, oid \in {Malformed} \cup OrderIds : AdminGetOrder(tok, oid)
    \/ \E tok \in Cookies, oid \in {Malformed} \cup OrderIds : CancelOrder(tok, oid)
    \/ \E tok \in Cookies, oid \in {Malformed} \cup OrderIds, newDate \in {"d1"} :
        RescheduleOrder(tok, oid, newDate)
    \/ \E tok \in Cookies, route \in ReportRoutes : AdminReport(route, tok)

SpecAdmin == InitAdmin /\ [][NextAdmin]_vars

\* Registrations start from a database that holds the admin only.
RegSeedUsers ==
    [u \in {1} |->
        NewUser([role |-> "admin", emailId |-> u, password |-> "pw", firstName |-> "n0",
                 lastName |-> "n0", gender |-> "g"])]

InitReg ==
    /\ users = RegSeedUsers
    /\ tokens = DOMAIN RegSeedUsers
    /\ addresses = << >>
    /\ nextAddr = 1
    /\ orders = << >>
    /\ nextOrder = 1
    /\ req = Request("none", NoToken, NoField, NoField, FALSE)
    /\ res = Response(200, "")
    /\ inflight = [p \in Requests |-> RegIdle]
    /\ tick = 0
    /\ now = 1
    /\ restaurants = << >>
    /\ menus = << >>
    /\ nextMenu = 1

\* Bodies of a registration; the restaurant's fields count for the restaurant
\* registration only.
RegBodies ==
    [emailId : {2, 3}, role : {"admin", "customer", "restaurant"}, password : {"pw"},
     firstName : {"n0"}, lastName : {"n0"}, gender : {"g"}, valid : BOOLEAN,
     restaurantName : {"r1", "absent"}]

NextReg ==
    \/ \E p \in Requests, op \in RegOps, tok \in {NoToken, 1}, body \in RegBodies :
        /\ op # "adminRegisterUsers" => tok = NoToken
        /\ op # "restaurantRegister" => body.restaurantName = "absent"
        /\ RegReceive(p, op, tok, body)
    \/ \E p \in Requests : RegSaveUser(p)
    \/ \E p \in Requests : RegSaveRestaurant(p)

SpecReg == InitReg /\ [][NextReg]_vars

\* The restaurant group works on a database that holds the restaurant of
\* user 3 with one menu item, and an order of the customer for it; the
\* restaurant owner holds a token cookie.
InitRest ==
    /\ users = AuthSeedUsers
    /\ tokens = {3}
    /\ addresses = << >>
    /\ nextAddr = 1
    /\ orders = <<OrderSchema(2, 1, "preparing", "unset", "unset")>>
    /\ nextOrder = 2
    /\ req = Request("none", NoToken, NoField, NoField, FALSE)
    /\ res = Response(200, "")
    /\ inflight = [p \in Requests |-> Idle]
    /\ tick = 0
    /\ now = 1
    /\ restaurants = <<[owner |-> 3, restaurantName |-> "r1"]>>
    /\ menus = <<[restaurant |-> 1, itemName |-> "i1", price |-> "5",
                  availability |-> "true"]>>
    /\ nextMenu = 2

\* User ids in a path: malformed, the customer, the restaurant owner, no user.
PathUserIds == {Malformed, 2, 3, 4}

\* User ids in a body: missing, the customer, the restaurant owner, no user.
GateUserIds == {NoField, 2, 3, 4}

RestaurantIds == 1..MaxRestaurants

MenuIds == 1..MaxMenu

RestaurantBodies == [restaurantName : {"r2", "absent"}]

RestaurantPatches == [userId : GateUserIds, restaurantName : {"r2"}]

ItemBodies ==
    [restaurant : {1}, itemName : {"i2", "absent"}, price : {"5"}, availability : {"true"}]

ItemPatches ==
    [userId : GateUserIds, itemName : {"absent"}, price : {"absent"},
     availability : {"false", "true"}]

OrderPatches == [userId : GateUserIds, orderStatus : {"Completed", ""}]

NextRest ==
    \/ \E userId \in PathUserIds, body \in RestaurantBodies, rejection \in Rejections :
        RegisterRestaurant(userId, body, rejection)
    \/ \E tok \in Cookies, userId \in PathUserIds, rejection \in Rejections :
        GetRestaurant(tok, userId, rejection)
    \/ \E tok \in Cookies, restaurantId \in {Malformed} \cup RestaurantIds,
          body \in RestaurantPatches, rejection \in Rejections :
        PatchRestaurant(tok, restaurantId, body, rejection)
    \/ \E tok \in Cookies, userId \in PathUserIds, restaurantId \in {1},
          rejection \in Rejections :
        ListMenu(tok, userId, restaurantId, rejection)
    \/ \E tok \in Cookies, userId \in PathUserIds, body \in ItemBodies,
          rejection \in Rejections :
        CreateItem(tok, userId, body, rejection)
    \/ \E tok \in Cookies, itemId \in {Malformed} \cup MenuIds, body \in ItemPatches,
          rejection \in Rejections :
        PatchItem(tok, itemId, body, rejection)
    \/ \E tok \in Cookies, userId \in PathUserIds, menuItemId \in {Malformed} \cup MenuIds,
          rejection \in Rejections :
        DeleteItem(tok, userId, menuItemId, rejection)
    \/ \E tok \in Cookies, userId \in PathUserIds, restaurantId \in {1},
          status \in {"unset", "preparing"}, rejection \in Rejections :
        RestaurantListOrders(tok, userId, restaurantId, status, rejection)
    \/ \E orderId \in {Malformed} \cup OrderIds, body \in OrderPatches,
          rejection \in Rejections :
        PatchOrder(orderId, body, rejection)

SpecRest == InitRest /\ [][NextRest]_vars

\* Orders of the restaurant: the admin and the customer hold token cookies,
\* the restaurant of user 3 exists, no order is placed yet.
InitRestOrders ==
    /\ users = AuthSeedUsers
    /\ tokens = {1, 2}
    /\ addresses = << >>
    /\ nextAddr = 1
    /\ orders = << >>
    /\ nextOrder = 1
    /\ req = Request("none", NoToken, NoField, NoField, FALSE)
    /\ res = Response(200, "")
    /\ inflight = [p \in Requests |-> Idle]
    /\ tick = 0
    /\ now = 1
    /\ restaurants = <<[owner |-> 3, restaurantName |-> "r1"]>>
    /\ menus = << >>
    /\ nextMenu = 1

\* Statuses a request can name; the empty string is falsy.
OrderStatuses == {"preparing", "Completed", "Cancelled", ""}

NextRestOrders ==
    \/ \E body \in {b \in OrderBodies : b.userId = NoField /\ b.valid} : PlaceOrder(2, body)
    \/ \E orderId \in OrderIds, userId \in {NoField, 3}, orderStatus \in OrderStatuses,
          rejection \in Rejections :
        PatchOrder(orderId, [userId |-> userId, orderStatus |-> orderStatus], rejection)
    \/ \E userId \in {3}, restaurantId \in {1},
          status \in {"unset", "preparing", "Completed", "Cancelled", "Rescheduled"},
          rejection \in Rejections :
        RestaurantListOrders(2, userId, restaurantId, status, rejection)
    \/ \E oid \in OrderIds : CancelOrder(NoToken, oid)
    \/ \E oid \in OrderIds, newDate \in {"d1"} : RescheduleOrder(1, oid, newDate)

SpecRestOrders == InitRestOrders /\ [][NextRestOrders]_vars

\* Bodies of a user patch: each allow-listed field present or absent, and a
\* role the handler is not meant to read.
AnyPatchBodies ==
    [phoneNumber : {"absent", "p1"}, firstName : {"absent", "n1"}, lastName : {"absent"},
     status : {"absent", "active", "inactive"}, role : {"absent", "admin"}]

NextPatch ==
    \/ \E tok \in Cookies, uid \in {Malformed} \cup Targets, body \in AnyPatchBodies :
        AdminPatchUser(tok, uid, body)
    \/ \E tok \in Cookies : AdminLogout(tok)
    \/ \E tok \in Cookies, uid \in Targets : AdminDeactivateUser(tok, uid)

SpecPatch == InitAdmin /\ [][NextPatch]_vars

\* The address collections the requests in flight find: none, one or two
\* addresses of user 2, at most one of them default.
RaceSeeds ==
    {<< >>,
     <<[userId |-> 2, isDefault |-> TRUE]>>,
     <<[userId |-> 2, isDefault |-> FALSE], [userId |-> 2, isDefault |-> FALSE]>>,
     <<[userId |-> 2, isDefault |-> TRUE], [userId |-> 2, isDefault |-> FALSE]>>}

InitRace ==
    /\ users = SeedUsers
    /\ tokens = DOMAIN SeedUsers
    /\ addresses \in RaceSeeds
    /\ nextAddr = Len(addresses) + 1
    /\ orders = << >>
    /\ nextOrder = 1
    /\ req = Request("none", NoToken, NoField, NoField, FALSE)
    /\ res = Response(200, "")
    /\ inflight = [p \in Requests |-> Idle]
    /\ tick = 0
    /\ now = 1
    /\ restaurants = << >>
    /\ menus = << >>
    /\ nextMenu = 1

NextRace ==
    \/ \E p \in Requests, op \in {"customerCreateAddress", "customerUpdateAddress"},
          tok \in Cookies, uid \in UserIds, aid \in AddrIds, body \in RaceBodies :
        Receive(p, op, tok, uid, aid, body)
    \/ \E p \in Requests : FindUser(p)
    \/ \E p \in Requests : FindAddress(p)
    \/ \E p \in Requests : UpdateMany(p)
    \/ \E p \in Requests : Save(p)

SpecRace == InitRace /\ [][NextRace]_vars

\* The monitor of active users: nobody has logged in yet, the clock starts.
InitMonitor ==
    /\ users = AuthSeedUsers
    /\ tokens = {}
    /\ addresses = << >>
    /\ nextAddr = 1
    /\ orders = << >>
    /\ nextOrder = 1
    /\ req = Request("none", NoToken, NoField, NoField, FALSE)
    /\ res = Response(200, "")
    /\ inflight = [p \in Requests |-> Idle]
    /\ tick = 0
    /\ now = 1
    /\ restaurants = << >>
    /\ menus = << >>
    /\ nextMenu = 1

\* Windows of the monitor, in minutes: the last minute, and the whole run.
Timeframes == {1, MaxNow}

NextMonitor ==
    \/ \E emailId \in {1, 2}, password \in Passwords : AuthLogin(emailId, password)
    \/ \E emailId \in {1, 2} : AdminLogin(emailId, "pw")
    \/ \E emailId \in {2} : CustomerLogin(emailId, "pw")
    \/ \E emailId \in {3} : RestaurantLogin(emailId, "pw")
    \/ \E tok \in Cookies : AdminLogout(tok)
    \/ \E tok \in Cookies, timeframe \in Timeframes : MonitorActiveUsers(tok, timeframe)
    \/ Elapse

SpecMonitor == InitMonitor /\ [][NextMonitor]_vars

\* ----------------------------------------------------- the default address

\* The addresses of user uid that are marked default.
DefaultsOf(A, uid) == {a \in DOMAIN A : A[a].userId = uid /\ A[a].isDefault}

\* The addresses of the users other than uid are the same documents in B as in A.
OthersUnchanged(A, B, uid) ==
    \A a \in DOMAIN A :
        A[a].userId # uid => a \in DOMAIN B /\ B[a] = A[a]

\* A customer address-create that succeeded with isDefault = true.
CreatedDefault(r, s) ==
    r.op = "customerCreateAddress" /\ s.status = 201 /\ r.def

\* A customer address-update that succeeded with isDefault = true.
UpdatedDefault(r, s) ==
    r.op = "customerUpdateAddress" /\ s.status = 200 /\ r.def

\* C1: after a successful customer address-create with isDefault = true, the
\* new address is the one default address of the user in the path, and the
\* addresses of the other users are as they were.
C1_CreateLeavesOneDefault ==
    [][CreatedDefault(req', res') =>
        /\ DefaultsOf(addresses', req'.uid) = {req'.id}
        /\ OthersUnchanged(addresses, addresses', req'.uid)]_vars

\* C3: whatever requests were served one at a time by the customer and the
\* admin address routes, no user has two default addresses.
C3_AtMostOneDefault ==
    \A u \in UserIds : Cardinality(DefaultsOf(addresses, u)) <= 1

\* C4: after a successful customer address-update with isDefault = true, the
\* stored target address is default and no other address of the user is, also
\* when the target was the default before.
C4_UpdateMakesTargetDefault ==
    [][UpdatedDefault(req', res') =>
        /\ req'.id \in DOMAIN addresses'
        /\ addresses'[req'.id].isDefault
        /\ DefaultsOf(addresses', req'.uid) \subseteq {req'.id}]_vars

\* ----------------------------------------------------------------- orders

\* The cookie resolves to no user, or to a user who is no admin.
NotAdmin(tok) == userAuth(tok) = NoToken \/ users[userAuth(tok)].role # "admin"

\* C6: the cancel route runs no middleware: a cancel of an existing order that
\* carries no token cookie, or the cookie of a user who is no admin, is
\* answered with success and leaves the order's orderStatus Cancelled.
C6_CancelWithoutToken ==
    (req.op = "cancelOrder" /\ NotAdmin(req.tok) /\ req.id \in DOMAIN orders) =>
        /\ res.status = 200
        /\ orders[req.id].orderStatus = "Cancelled"

C6_CancelledWithNoCookie ==
    /\ req.op = "cancelOrder"
    /\ req.tok = NoToken
    /\ res.status = 200
    /\ orders[req.id].orderStatus = "Cancelled"

\* The paths of an order other than orderStatus.
SameButOrderStatus(o1, o2) == [o1 EXCEPT !.orderStatus = "x"] = [o2 EXCEPT !.orderStatus = "x"]

\* C7: a cancel of an existing order sets its orderStatus to Cancelled and
\* changes no other path of it and no other order, whatever the prior
\* orderStatus; a second cancel in a row changes nothing; a cancel of an id
\* that names no order is answered 404 and changes nothing.
C7_CancelSetsOnlyOrderStatus ==
    [][req'.op = "cancelOrder" /\ req'.id # Malformed =>
        IF req'.id \in DOMAIN orders
        THEN /\ DOMAIN orders' = DOMAIN orders
             /\ orders'[req'.id].orderStatus = "Cancelled"
             /\ SameButOrderStatus(orders'[req'.id], orders[req'.id])
             /\ \A o \in DOMAIN orders \ {req'.id} : orders'[o] = orders[o]
             /\ (req.op = "cancelOrder" /\ req.id = req'.id => orders' = orders)
        ELSE /\ res'.status = 404
             /\ orders' = orders]_vars

C7_CancelledARescheduledOrder ==
    /\ req.op = "cancelOrder"
    /\ res.status = 200
    /\ orders[req.id].orderStatus = "Cancelled"
    /\ orders[req.id].date = "d1"
    /\ \E o \in DOMAIN orders : orders[o].orderStatus = "Rescheduled"

InSeq(x, s) == \E i \in DOMAIN s : s[i] = x

\* Some page of the admin listing with this filter and page size holds order id.
Listed(O, id, status, limit) ==
    LET found == ListQuery(O, status) IN
    \E page \in 1..totalPages(Len(found), limit) : InSeq(id, Page(found, page, limit))

\* C9: a successful order placement inserts exactly one order; its userId is
\* the authenticated user's id, whatever the body holds, and its status is
\* preparing; the order is in that user's order history and on a page of the
\* admin listing (unfiltered, and filtered by status preparing).
C9_PlacedOrderIsListed ==
    [][req'.op = "placeOrder" /\ res'.status = 201 =>
        /\ req'.id \notin DOMAIN orders
        /\ DOMAIN orders' = DOMAIN orders \cup {req'.id}
        /\ \A o \in DOMAIN orders : orders'[o] = orders[o]
        /\ orders'[req'.id].userId = userAuth(req'.tok)
        /\ orders'[req'.id].status = "preparing"
        /\ InSeq(req'.id, History(orders', userAuth(req'.tok)))
        /\ \A limit \in Limits :
            /\ Listed(orders', req'.id, "absent", limit)
            /\ Listed(orders', req'.id, "preparing", limit)]_vars

C9_SecondOrderPlaced ==
    /\ req.op = "placeOrder"
    /\ res.status = 201
    /\ req.id = 2
    /\ orders[1].userId # orders[2].userId
    /\ History(orders, orders[2].userId) = <<2>>

\* C10: tracking answers with the order's status only to the user the order
\* belongs to; for an order of another user the response is the response for
\* an id that names no order: 404, Order not found.
C10_TrackHidesForeignOrders ==
    (req.op = "trackOrder" /\ userAuth(req.tok) # NoToken /\ req.id # Malformed) =>
        IF req.id \in DOMAIN orders /\ orders[req.id].userId = userAuth(req.tok)
        THEN res = Response(200, orders[req.id].status)
        ELSE res = Response(404, "Order not found")

C10_TrackedForeignOrder ==
    /\ req.op = "trackOrder"
    /\ userAuth(req.tok) # NoToken
    /\ req.id \in DOMAIN orders
    /\ orders[req.id].userId # userAuth(req.tok)
    /\ res.status = 404

\* ------------------------------------------------------ requests in flight

\* Both requests in flight have been answered.
BothDone == \A p \in Requests : inflight[p].pc = "done"

\* Request p set a default address: it succeeded with isDefault = true.
SetDefault(p) ==
    /\ inflight[p].status \in {200, 201}
    /\ Truthy(inflight[p].isDefault)

\* C2: two concurrent requests of one user that each set a default address
\* can leave two default addresses (C2_TwoDefaultsAfterRace is reached), and
\* they do so only by interleaving: whenever both have completed and a user
\* has two default addresses, each request set a default and both
\* updateMany writes were made before either save.
C2_TwoDefaultsOnlyByInterleaving ==
    (BothDone /\ \E u \in UserIds : Cardinality(DefaultsOf(addresses, u)) >= 2) =>
        /\ \A p \in Requests : SetDefault(p)
        /\ \A p, q \in Requests : inflight[p].cleared < inflight[q].saved

C2_TwoDefaultsAfterRace ==
    /\ BothDone
    /\ \A p \in Requests : SetDefault(p) /\ inflight[p].uid = 2
    /\ Cardinality(DefaultsOf(addresses, 2)) = 2

\* ------------------------------------------------------------- admin gate

\* The requests of the admin routes registered with userAuth and isAdmin.
GatedOps ==
    {"adminLogout", "adminRegisterUsers", "adminDeactivateUser", "adminPatchUser",
     "adminCreateAddress", "adminUpdateAddress", "adminListOrders", "adminGetOrder",
     "rescheduleOrder"} \cup ReportRoutes

\* The cookie resolves to a user whose role is not admin.
ResolvedNonAdmin(tok) == userAuth(tok) # NoToken /\ users[userAuth(tok)].role # "admin"

\* C5: every admin route but login and order cancel is registered with
\* userAuth and then isAdmin, and a request to one of them whose cookie
\* resolves to a user of another role than admin is answered 400 with the
\* gate's message and changes no user, order or address.
C5_NonAdminIsRejected ==
    /\ \A r \in DOMAIN adminRoutes \ {"login", "cancelOrder"} :
           adminRoutes[r] = <<"userAuth", "isAdmin">>
    /\ [][(req'.op \in GatedOps /\ ResolvedNonAdmin(req'.tok)) =>
            /\ res'.status = 400
            /\ res'.body = "ERROR : Invalid Authorization"
            /\ UNCHANGED <<users, orders, addresses, nextAddr, nextOrder>>]_vars

\* A customer's reschedule of an existing order was rejected.
C5_CustomerRescheduleRejected ==
    /\ req.op = "rescheduleOrder"
    /\ req.id \in DOMAIN orders
    /\ ResolvedNonAdmin(req.tok)
    /\ res.status = 400
    /\ orders[req.id].orderStatus # "Rescheduled"

\* ------------------------------------------------------------- deactivation

LoginOps == {"authLogin", "adminLogin", "customerLogin", "restaurantLogin"}

\* C8: a login, on any login endpoint, with the email and the correct
\* password of a user whose status is inactive fails and sets no token cookie.
C8_InactiveUserCannotLogin ==
    (/\ req.op \in LoginOps
     /\ req.uid # NoField
     /\ users[req.uid].status = "inactive"
     /\ validatePassword(users[req.uid], req.password)) =>
        (res.status = 400 /\ res.cookie = NoToken)

\* ------------------------------------------------------------------ logins

\* The role a login endpoint serves; the generic login serves every role.
ServesRole(op, role) ==
    \/ op = "authLogin"
    \/ op = "adminLogin" /\ role = "admin"
    \/ op = "customerLogin" /\ role = "customer"
    \/ op = "restaurantLogin" /\ role = "restaurant"

\* C11: on each login endpoint, a login with an existing user's email and a
\* wrong password that follows a login with an email of no user is answered
\* with the same status and the same body as that one, and neither sets a
\* token cookie; a login with the correct password of an active user of the
\* endpoint's role sets the token cookie.
C11_LoginDoesNotRevealEmail ==
    [][/\ (/\ req'.op \in LoginOps
           /\ req'.uid # NoField
           /\ users[req'.uid].status = "active"
           /\ ServesRole(req'.op, users[req'.uid].role)
           /\ validatePassword(users[req'.uid], req'.password))
              => (res'.cookie = req'.uid)
       /\ (/\ req.op \in LoginOps
           /\ req'.op = req.op
           /\ req.uid = NoField
           /\ req'.uid # NoField
           /\ ~validatePassword(users[req'.uid], req'.password))
              => (/\ res'.status = res.status
                  /\ res'.body = res.body
                  /\ res.cookie = NoToken
                  /\ res'.cookie = NoToken)]_vars

\* ----------------------------------------------------------- registrations

\* A registration the endpoint accepts: it passes the admin route's
\* middlewares, the validation and the role check, and the restaurant
\* registration carries the restaurant's fields.
PassedMiddlewares(r) ==
    r.op = "adminRegisterUsers" =>
        RunMiddlewares(adminRoutes.registerUsers, r.tok) = Proceed

Acceptable(r) ==
    /\ PassedMiddlewares(r)
    /\ validateSignUpData(r.body)
    /\ RoleAccepted(r.op, r.body.role)
    /\ r.op = "restaurantRegister" => r.body.restaurantName # "absent"

Finished == {p \in Requests : inflight[p].pc = "done"}

\* C12: whatever registrations ran, one after the other or interleaved, no
\* two users have the same emailId; a finished registration that reached its
\* handler and whose emailId another user holds was answered 400 and
\* persisted no User and no Restaurant; a finished acceptable registration either persisted exactly one
\* User with its emailId or found the emailId taken; and every User and
\* Restaurant in the database was persisted by exactly one registration.
C12_EmailIdIsUnique ==
    /\ \A u, v \in DOMAIN users : u # v => users[u].emailId # users[v].emailId
    /\ \A p \in Finished :
           LET r == inflight[p] IN
           /\ (/\ PassedMiddlewares(r)
               /\ \E u \in DOMAIN users \ {r.user} : users[u].emailId = r.body.emailId)
                  => (r.status = 400 /\ r.user = NoField /\ r.restaurant = NoField)
           /\ Acceptable(r) =>
                  \/ /\ r.status = 200
                     /\ r.user \in DOMAIN users
                     /\ users[r.user].emailId = r.body.emailId
                  \/ /\ r.status = 400
                     /\ r.user = NoField
                     /\ \E u \in DOMAIN users : users[u].emailId = r.body.emailId
    /\ Cardinality(DOMAIN users) =
           Cardinality(DOMAIN RegSeedUsers)
               + Cardinality({p \in Requests : inflight[p].user # NoField})
    /\ \A p, q \in Requests :
           (p # q /\ inflight[p].user # NoField) => inflight[p].user # inflight[q].user

\* Two acceptable registrations with the same emailId both reached
\* user.save(): one was answered 200, the other 400.
C12_OneOfTwoRegistered ==
    /\ Finished = Requests
    /\ \A p \in Requests : Acceptable(inflight[p])
    /\ inflight[1].body.emailId = inflight[2].body.emailId
    /\ inflight[1].status = 200
    /\ inflight[2].status = 400
    /\ inflight[2].user = NoField

\* ------------------------------------------------------- restaurant gate

\* The requests of the restaurant routes that call isAdminOrRestaurant.
RestaurantGateOps ==
    {"registerRestaurant", "getRestaurant", "patchRestaurant", "listMenu", "createItem",
     "patchItem", "deleteItem", "restaurantListOrders", "patchOrder"}

\* C13: a request to a restaurant route that calls isAdminOrRestaurant with a
\* user id that is missing, names no user, or names a user who is neither
\* admin nor restaurant is answered with an error, writes no Restaurant, Menu
\* or Order and returns no data.
C13_GateStopsTheHandler ==
    [][(req'.op \in RestaurantGateOps /\ isAdminOrRestaurant(req'.uid) # "ok") =>
            /\ res'.status >= 400
            /\ res'.data = << >>
            /\ UNCHANGED <<restaurants, menus, nextMenu, orders>>]_vars

\* ------------------------------------------------- restaurant order patch

\* A patch of an existing order, without token cookie, with a non-empty
\* orderStatus.
PatchesStatus(r, O) ==
    /\ r.op = "patchOrder"
    /\ r.tok = NoToken
    /\ r.id \in DOMAIN O
    /\ r.arg.orderStatus # ""

Deleted(r, s) == r.op = "deleteItem" /\ s.status = 201

\* C15: when the delete of a menu item is answered with its success message
\* the item no longer exists; a menu listing that follows does not contain
\* it, and a second delete of the same id that follows reports
\* 'Menu Item not found to Delete!!!'.
C15_DeletedItemIsGone ==
    [][/\ Deleted(req', res') => req'.id \notin DOMAIN menus'
       /\ (Deleted(req, res) /\ req'.op = "listMenu" /\ res'.status = 200)
              => \A i \in DOMAIN res'.data : res'.data[i] # req.id
       /\ (Deleted(req, res) /\ req'.op = "deleteItem" /\ req'.id = req.id
           /\ res'.status # 0 /\ res'.status # 401)
              => res'.body = "ERROR : Menu Item not found to Delete!!!"]_vars

\* -------------------------------------------------------- address scoping

CustomerAddressOps ==
    {"customerCreateAddress", "customerUpdateAddress", "customerDeleteAddress"}

\* C16: a request to a customer address route creates, modifies or deletes
\* only addresses whose userId is the id of the authenticated user.
C16_OnlyOwnAddresses ==
    [][req'.op \in CustomerAddressOps =>
            \A a \in DOMAIN addresses \cup DOMAIN addresses' :
                /\ a \notin DOMAIN addresses => addresses'[a].userId = userAuth(req'.tok)
                /\ a \notin DOMAIN addresses' => addresses[a].userId = userAuth(req'.tok)
                /\ (a \in DOMAIN addresses /\ a \in DOMAIN addresses'
                    /\ addresses'[a] # addresses[a])
                       => (/\ addresses[a].userId = userAuth(req'.tok)
                           /\ addresses'[a].userId = userAuth(req'.tok))]_vars

\* ------------------------------------------------------------ role logins

\* The user the email names exists, has the endpoint's role, is active, and
\* the password verifies.
Entitled(r) ==
    /\ r.uid # NoField
    /\ users[r.uid].role = (IF r.op = "customerLogin" THEN "customer" ELSE "restaurant")
    /\ users[r.uid].status = "active"
    /\ validatePassword(users[r.uid], r.password)

\* C17: the customer login and the restaurant login set the token cookie
\* only for an existing, active user of their own role whose password
\* verifies; in every other case the answer is 400, no cookie is set and no
\* token is issued.
C17_RoleLoginsCheckRoleAndStatus ==
    [][req'.op \in {"customerLogin", "restaurantLogin"} =>
            IF Entitled(req')
            THEN res'.status = 200 /\ res'.cookie = req'.uid
            ELSE res'.status = 400 /\ res'.cookie = NoToken /\ tokens' = tokens]_vars

\* A deactivated customer with the correct password was refused by the
\* customer login.
C17_InactiveCustomerRefused ==
    /\ req.op = "customerLogin"
    /\ req.uid # NoField
    /\ users[req.uid].role = "customer"
    /\ users[req.uid].status = "inactive"
    /\ validatePassword(users[req.uid], req.password)
    /\ res.status = 400
    /\ res.cookie = NoToken

\* --------------------------------------------------------------- user patch

AllowList == {"phoneNumber", "firstName", "lastName", "status"}

\* C18: a user patch leaves every other user as it was, leaves the target's
\* fields outside the allow-list (emailId, password, role, gender,
\* lastActiveAt) as they were, leaves an allow-listed field that is absent
\* from the body as it was, adds and removes no user, and answers 404 with
\* no change when the id names no user.
C18_PatchChangesAllowListOnly ==
    [][req'.op = "adminPatchUser" =>
            /\ DOMAIN users' = DOMAIN users
            /\ \A u \in DOMAIN users :
                   /\ u # req'.uid => users'[u] = users[u]
                   /\ \A f \in DOMAIN users[u] :
                          (f \notin AllowList \/ req'.arg[f] = "absent")
                              => users'[u][f] = users[u][f]
            /\ (/\ RunMiddlewares(adminRoutes.patchUser, req'.tok) = Proceed
                /\ req'.uid # Malformed
                /\ req'.uid \notin DOMAIN users)
                   => (res'.status = 404 /\ users' = users)]_vars

\* A patch whose body names a first name and a role, and no status, renamed
\* a deactivated customer who had a phone number: the user is still
\* inactive, still a customer, and kept the phone number.
C18_RenamedOnly ==
    /\ req.op = "adminPatchUser"
    /\ res.status = 200
    /\ req.arg.role = "admin"
    /\ req.arg.status = "absent"
    /\ req.arg.phoneNumber = "absent"
    /\ req.arg.firstName = "n1"
    /\ users[req.uid].firstName = "n1"
    /\ users[req.uid].status = "inactive"
    /\ users[req.uid].phoneNumber = "p1"
    /\ users[req.uid].role = "customer"

\* The status an order currently has: the one written last by order placement
\* (status), admin cancel, admin reschedule or the restaurant patch
\* (orderStatus).
CurrentStatus(order) ==
    IF order.orderStatus # "unset" THEN order.orderStatus ELSE order.status

\* The orders placed for a restaurant that currently have a status.
PlacedFor(O, restaurantId, status) ==
    Find(O, LAMBDA o : o.restaurantId = restaurantId /\ CurrentStatus(o) = status)

\* C19: the restaurant's order listing, when it answers, returns exactly the
\* orders placed for the restaurant of the path whose current status is the
\* status of the path.
C19_ListsOrdersOfRestaurant ==
    (req.op = "restaurantListOrders" /\ res.status = 200)
        => res.data = PlacedFor(orders, req.id, req.arg)

\* The orders that currently have a status.
WithStatus(O, status) == Find(O, LAMBDA o : CurrentStatus(o) = status)

\* C20: the admin listing with status = S returns only orders whose current
\* status is S, totalOrders is the number of such orders, data holds at most
\* limit of them and totalPages is ceil(totalOrders / limit).
C20_ListingFiltersByCurrentStatus ==
    (req.op = "adminListOrders" /\ res.status = 200 /\ req.arg.status # "absent")
        => /\ \A i \in 1..Len(res.data) :
                CurrentStatus(orders[res.data[i]]) = req.arg.status
           /\ res.totalOrders = Len(WithStatus(orders, req.arg.status))
           /\ Len(res.data) <= req.arg.limit
           /\ res.totalPages = totalPages(res.totalOrders, req.arg.limit)

\* -------------------------------------------------------------- active users

\* C21: a user who logged in successfully within the last T minutes is counted
\* by the monitor of active users with timeframe T.  Token cookies are issued
\* by successful logins only and the run is no longer than MaxNow minutes, so
\* with T = MaxNow every user a cookie was issued for logged in within T.
C21_LoggedInUsersAreCounted ==
    (req.op = "activeUsers" /\ res.status = 200 /\ req.arg = MaxNow)
        => /\ \A u \in tokens : /\ users[u].lastActiveAt # 0
                                /\ users[u].lastActiveAt >= activeSince(req.arg)
           /\ res.activeUserCount >= Cardinality(tokens)

\* ------------------------------------------------- no default after a race

\* Both requests in flight set a default address of user u.
BothSetDefault(u) ==
    /\ BothDone
    /\ \A p \in Requests : SetDefault(p) /\ inflight[p].uid = u

\* C22: two concurrent customer requests of one user that each set a default
\* address can complete with no default address of that user
\* (C22_NoDefaultAfterRace is reached), and whenever they do, the request that
\* saved last is an update of an address it had loaded as the default: its
\* save leaves isDefault unwritten after an updateMany has cleared it.
C22_NoDefaultOnlyByUnmodifiedSave ==
    \A u \in UserIds :
        (BothSetDefault(u) /\ DefaultsOf(addresses, u) = {}) =>
            \E p \in Requests :
                /\ inflight[p].op = "customerUpdateAddress"
                /\ inflight[p].address.isDefault
                /\ \A q \in Requests : inflight[q].saved <= inflight[p].saved

\* Both updateMany writes were made before either save, and no default is left.
C22_NoDefaultAfterRace ==
    /\ BothSetDefault(2)
    /\ \A p, q \in Requests : inflight[p].cleared < inflight[q].saved
    /\ \E a \in DOMAIN addresses : addresses[a].userId = 2
    /\ DefaultsOf(addresses, 2) = {}

\* ------------------------------------------------------- mandatory fields

\* C23: an address-create request (customer or admin route) that lacks one of
\* the seven mandatory fields leaves the address collection as it was, and,
\* when it passes the route's middlewares and names an existing user, is
\* answered 400.
C23_IncompleteCreateIsRejected ==
    [][req'.op \in {"customerCreateAddress", "adminCreateAddress"} =>
        \A body \in IncompleteBodies :
            /\ CustomerCreateAddress(req'.tok, req'.uid, body) =>
                /\ addresses' = addresses
                /\ (userAuth(req'.tok) # NoToken /\ req'.uid \in DOMAIN users)
                        => res'.status = 400
            /\ AdminCreateAddress(req'.tok, req'.uid, body) =>
                /\ addresses' = addresses
                /\ (RunMiddlewares(adminRoutes.createAddress, req'.tok) = Proceed
                    /\ req'.uid \in DOMAIN users) => res'.status = 400]_vars

\* A customer create with isDefault = true was rejected for a missing field
\* and the user's default address is still the default.
C23_DefaultKeptOnRejection ==
    /\ req.op = "customerCreateAddress"
    /\ res.status = 400
    /\ req.def
    /\ DefaultsOf(addresses, req.uid) # {}

\* ---------------------------------------------------------- address delete

\* C24: the customer address delete, once authenticated, acts on the pair
\* (userId, addressId): when the address exists and belongs to the path's
\* user, exactly that address is removed and every other address stays as it
\* was; otherwise the answer is 404 and nothing is removed.
C24_DeleteActsOnThePair ==
    [][(/\ req'.op = "customerDeleteAddress"
        /\ userAuth(req'.tok) # NoToken
        /\ req'.id # Malformed) =>
        IF req'.id \in DOMAIN addresses /\ addresses[req'.id].userId = req'.uid
        THEN /\ res'.status = 200
             /\ DOMAIN addresses' = DOMAIN addresses \ {req'.id}
             /\ \A a \in DOMAIN addresses' : addresses'[a] = addresses[a]
        ELSE /\ res'.status = 404
             /\ addresses' = addresses]_vars

\* An address was deleted and a default address of some user is still there.
C24_DeletedOneOfTwo ==
    /\ req.op = "customerDeleteAddress"
    /\ res.status = 200
    /\ req.id \notin DOMAIN addresses
    /\ \E a \in DOMAIN addresses : addresses[a].isDefault

\* ----------------------------------------------------------- menu-item patch

\* C25: after a successful menu-item patch every allow-listed field the body
\* supplied holds the supplied value (availability = false included), and the
\* item's restaurant is the one it had.
C25_PatchStoresSuppliedValues ==
    [][(req'.op = "patchItem" /\ res'.status = 200) =>
        /\ \A f \in {"itemName", "price", "availability"} :
            req'.arg[f] # "absent" => menus'[req'.id][f] = req'.arg[f]
        /\ menus'[req'.id].restaurant = menus[req'.id].restaurant]_vars

\* ------------------------------------------------------------ order tracking

\* C26: the status order tracking reports to the customer is the order's
\* current status: Cancelled after an admin cancel, Rescheduled after an admin
\* reschedule, the patched value after a restaurant patch.
C26_TrackingReportsCurrentStatus ==
    (req.op = "trackOrder" /\ res.status = 200)
        => res.body = CurrentStatus(orders[req.id])

\* ------------------------------------------------------------- admin users

\* C27: a User with role admin comes into existence only through the admin's
\* registration route, requested with the token cookie of an admin: no user a
\* request without such a cookie has created is an admin.
C27_AdminsAreMadeByAdmins ==
    \A p \in Requests :
        (inflight[p].user # NoField /\ users[inflight[p].user].role = "admin") =>
            /\ inflight[p].op = "adminRegisterUsers"
            /\ userAuth(inflight[p].tok) # NoToken
            /\ users[userAuth(inflight[p].tok)].role = "admin"

\* ------------------------------------------- restaurant self-registration

\* C28: the restaurant self-registration is all-or-nothing: answered with an
\* error it has persisted neither a User nor a Restaurant; answered with
\* success it has persisted one User with role restaurant and one Restaurant
\* owned by that User.
C28_RegistrationIsAllOrNothing ==
    \A p \in Requests :
        (inflight[p].op = "restaurantRegister" /\ inflight[p].pc = "done") =>
            IF inflight[p].status = 200
            THEN /\ inflight[p].user \in DOMAIN users
                 /\ users[inflight[p].user].role = "restaurant"
                 /\ inflight[p].restaurant \in DOMAIN restaurants
                 /\ \A i \in DOMAIN restaurants :
                        restaurants[i].owner = inflight[p].user
                            <=> i = inflight[p].restaurant
            ELSE /\ inflight[p].user = NoField
                 /\ inflight[p].restaurant = NoField

\* -------------------------------------------------------- restaurant owners

\* C29: in every reachable state the owner of every Restaurant is an existing
\* User whose role is restaurant or admin.
C29_OwnersAreRestaurantOrAdmin ==
    \A i \in DOMAIN restaurants :
        /\ restaurants[i].owner \in DOMAIN users
        /\ users[restaurants[i].owner].role \in {"restaurant", "admin"}

\* ---------------------------------------------------------- cancelled orders

\* C30: Cancelled is terminal: once an order's orderStatus is Cancelled no
\* later admin cancel, admin reschedule or restaurant patch gives it another
\* orderStatus.
C30_CancelledIsTerminal ==
    [][\A o \in DOMAIN orders :
        orders[o].orderStatus = "Cancelled" => orders'[o].orderStatus = "Cancelled"]_vars

====
